---- MODULE Spec2Model ----
(***************************************************************************)
(* Verification model of the procedural building core:                     *)
(*   mf_v5/doors.py   carve_doors, corridor_door_openings                  *)
(*   mf_v5/roof.py    build_roof                                           *)
(*   blenpc/run_command.py   the roof selection of generate_building       *)
(*   blenpc/atoms/door.py   build_door                                     *)
(*   blenpc/atoms/wall.py   golden_split, create_engineered_wall           *)
(*   mf_v5/blender_mesh.py  final_merge_and_cleanup                        *)
(*                                                                         *)
(* Lengths are exact integers on a grid whose unit is EPSILON.  The code   *)
(* halves door widths and rectangle spans; the inputs are drawn so that    *)
(* every halving is exact (even widths, even rectangle coordinates), which *)
(* makes \div agree with the code's real division.                         *)
(* The metric lengths of blenpc are exact integers in millimetres.         *)
(***************************************************************************)
EXTENDS Integers, Sequences, FiniteSets, TLC

VARIABLES
    pc,                 \* which call has completed: "input" before, then the call's name
    wall_segments,      \* carve_doors argument: room id -> sequence of WallSegment
    openings,           \* carve_doors argument: sequence of DoorOpening
    carved,             \* carve_doors result: room id -> sequence of WallSegment
    corridor_facing,    \* corridor_door_openings argument: room id -> sequence of sides
    room_rect_lookup,   \* corridor_door_openings argument: room id -> (min_x, min_y, max_x, max_y)
    corridor_out,       \* corridor_door_openings result: sequence of DoorOpening
    footprint,          \* build_roof argument: Rect
    base_z,             \* build_roof argument
    roof_type,          \* build_roof argument
    roof,               \* build_roof result: RoofGeometry
    spec_data,          \* command_data["spec"] of a generate_building command
    spec_roof_type,     \* BuildingSpec.roof_type chosen by run()
    door_style,         \* build_door argument
    door_material,      \* build_door argument
    door_swing,         \* build_door argument
    door_position,      \* build_door argument: <<>> for None, or (x, y, z)
    door,               \* build_door result: DoorData, <<>> while there is none
    door_raised,        \* the exception build_door raised, <<>> while there is none
    wall_length,        \* golden_split / create_engineered_wall argument
    rng_draw,           \* the numerator of the value rng.random() returns, over RngSteps
    has_bpy,            \* whether the bpy module could be imported
    slot_types,         \* the slot registry file: whether it exists, and its "types"
    split,              \* golden_split result
    wall_slots,         \* the slots create_engineered_wall returns
    wall_raised,        \* the exception create_engineered_wall raised, <<>> while none
    merge_objects,      \* final_merge_and_cleanup argument: sequence of object ids
    scene_at_call,      \* the scene when final_merge_and_cleanup was called
    scene,              \* the scene: objects (id -> type, name, selected) and the active one
    merged,             \* final_merge_and_cleanup result: an object id, 0 for None
    inventory,          \* the inventory file: whether it exists, and its JSON content
    lock,               \* the lock file: whether it exists, its mtime and the pid in it
    reg_asset,          \* register_asset argument of the last call
    inventory_at_call,  \* the inventory file when register_asset was called
    find_tags,          \* find_asset / place_on_slot argument of the last call
    found,              \* find_asset result: an asset, <<>> for None
    placed,             \* place_on_slot result
    now,                \* time.time(), in tenths of a second
    ppc,                \* process -> the statement of run() it is to execute next
    asset_names,        \* process -> the asset name of its create_wall command
    start_time,         \* process -> start_time of its acquire_lock
    polls,              \* process -> the number of its time.sleep calls
    asset_info,         \* process -> the asset its run registers, <<>> before
    removed,            \* the lock removals of acquire_lock: by whom, whose lock, held or not
    local,              \* process -> the inventory it loaded and updates
    proc_raised,        \* process -> the exception that is propagating, "none" without
    proc_result,        \* process -> the result run() is to write, <<>> before
    output,             \* process -> the content of its output file, <<>> without file
    blend_files,        \* the .blend files of the library: the set of the paths
    backups,            \* the processes that wrote a backup of the inventory
    argv,               \* sys.argv of a run() call
    input_file,         \* the input file of a run() call: whether it exists, its content
    command_raises,     \* whether executing the command raises an exception
    exit_code,          \* the exit code of a run() call, -1 while it has not ended
    run_output          \* the output file of a run() call, <<>> without file

carveVars == <<wall_segments, openings, carved>>
corridorVars == <<corridor_facing, room_rect_lookup, corridor_out>>
roofVars == <<footprint, base_z, roof_type, roof, spec_data, spec_roof_type>>
doorVars == <<door_style, door_material, door_swing, door_position, door, door_raised>>
wallVars == <<wall_length, rng_draw, has_bpy, slot_types, split, wall_slots, wall_raised>>
sceneVars == <<merge_objects, scene_at_call, scene, merged>>
registryVars == <<inventory, lock, reg_asset, inventory_at_call, find_tags, found, placed>>
procVars == <<now, ppc, asset_names, start_time, polls, asset_info, removed, local,
              proc_raised, proc_result, output, blend_files, backups>>
runVars == <<argv, input_file, command_raises, exit_code, run_output>>
vars == <<pc, carveVars, corridorVars, roofVars, doorVars, wallVars, sceneVars,
          registryVars, procVars, runVars>>

\* the state of the functions a behaviour does not call
IdleCarve == wall_segments = <<>> /\ openings = <<>> /\ carved = <<>>
IdleCorridor == corridor_facing = <<>> /\ room_rect_lookup = <<>> /\ corridor_out = <<>>
IdleRoof ==
    /\ footprint = <<>> /\ base_z = 0 /\ roof_type = "none" /\ roof = <<>>
    /\ spec_data = <<>> /\ spec_roof_type = "none"
IdleDoor ==
    /\ door_style = "none" /\ door_material = "none" /\ door_swing = "none"
    /\ door_position = <<>> /\ door = <<>> /\ door_raised = <<>>
IdleWall ==
    /\ wall_length = 0 /\ rng_draw = 0 /\ has_bpy = FALSE /\ slot_types = <<>>
    /\ split = 0 /\ wall_slots = <<>> /\ wall_raised = <<>>
IdleScene == merge_objects = <<>> /\ scene_at_call = <<>> /\ scene = <<>> /\ merged = 0
IdleRegistry ==
    /\ inventory = <<>> /\ lock = <<>> /\ reg_asset = <<>> /\ inventory_at_call = <<>>
    /\ find_tags = <<>> /\ found = <<>> /\ placed = <<>>
IdleProcs ==
    /\ now = 0 /\ ppc = <<>> /\ asset_names = <<>> /\ start_time = <<>> /\ polls = <<>>
    /\ asset_info = <<>> /\ removed = {}
    /\ local = <<>> /\ proc_raised = <<>> /\ proc_result = <<>> /\ output = <<>>
    /\ blend_files = {} /\ backups = {}
IdleRun ==
    /\ argv = <<>> /\ input_file = <<>> /\ command_raises = FALSE /\ exit_code = -1
    /\ run_output = <<>>

-----------------------------------------------------------------------------
(* Bounds of the model *)

MaxCoord == 10          \* wall coordinates range over 0..MaxCoord
MaxRect == 2            \* rectangle coordinates range over the even numbers 0..2*MaxRect

Coords == 0 .. MaxCoord
DoorWidths == {2, 4}    \* sample opening widths (even, so width/2 is exact)
Sides == {"north", "south", "east", "west"}
RectCoords == {2 * k : k \in 0 .. MaxRect}
MaxLenSteps == 80       \* wall lengths range over the multiples of 0.125 m, this many
RngSteps == 16          \* rng.random() returns one of 0/RngSteps .. (RngSteps-1)/RngSteps

-----------------------------------------------------------------------------
(* mf_v5/config.py and mf_v5/datamodel.py: the constants in grid units (EPSILON is *)
(* the unit, the others are positive stand-ins) and the value types              *)

EPSILON == 1
DOOR_WIDTH == 2
DOOR_HEIGHT == 4
ROOF_HEIGHT == 2

WallSegment(room_id, side, x1, y1, x2, y2, height, thickness) ==
    [room_id |-> room_id, side |-> side, x1 |-> x1, y1 |-> y1,
     x2 |-> x2, y2 |-> y2, height |-> height, thickness |-> thickness]

Rect(min_x, min_y, max_x, max_y) ==
    [min_x |-> min_x, min_y |-> min_y, max_x |-> max_x, max_y |-> max_y]

\* the members of the enumeration RoofType
RoofTypes == {"FLAT", "HIP", "GABLED", "SHED"}

DoorOpening(room_id, side, center, width, height) ==
    [room_id |-> room_id, side |-> side, center |-> center,
     width |-> width, height |-> height]

-----------------------------------------------------------------------------
(* mf_v5/doors.py *)

\* sorted((a, b))[0] and sorted((a, b))[1]
SortedMin(a, b) == IF a <= b THEN a ELSE b
SortedMax(a, b) == IF a <= b THEN b ELSE a

\* _split_horizontal with the test of the right piece reversed
_split_horizontal_right_reversed(seg, cx, door_width) ==
    LET left_end == cx - door_width \div 2
        right_start == cx + door_width \div 2
        x_min == SortedMin(seg.x1, seg.x2)
        x_max == SortedMax(seg.x1, seg.x2)
        left == IF left_end - x_min > EPSILON
                THEN <<WallSegment(seg.room_id, seg.side, x_min, seg.y1,
                                   left_end, seg.y2, seg.height, seg.thickness)>>
                ELSE <<>>
        right == IF x_max - right_start < EPSILON
                 THEN <<WallSegment(seg.room_id, seg.side, right_start, seg.y1,
                                    x_max, seg.y2, seg.height, seg.thickness)>>
                 ELSE <<>>
    IN  left \o right

_split_horizontal(seg, cx, door_width) ==
    LET left_end == cx - door_width \div 2
        right_start == cx + door_width \div 2
        x_min == SortedMin(seg.x1, seg.x2)
        x_max == SortedMax(seg.x1, seg.x2)
        left == IF left_end - x_min > EPSILON
                THEN <<WallSegment(seg.room_id, seg.side, x_min, seg.y1,
                                   left_end, seg.y2, seg.height, seg.thickness)>>
                ELSE <<>>
        right == IF x_max - right_start > EPSILON
                 THEN <<WallSegment(seg.room_id, seg.side, right_start, seg.y1,
                                    x_max, seg.y2, seg.height, seg.thickness)>>
                 ELSE <<>>
    IN  left \o right

\* _split_vertical that lists the top piece before the bottom piece
_split_vertical_top_first(seg, cy, door_width) ==
    LET bottom_end == cy - door_width \div 2
        top_start == cy + door_width \div 2
        y_min == SortedMin(seg.y1, seg.y2)
        y_max == SortedMax(seg.y1, seg.y2)
        bottom == IF bottom_end - y_min > EPSILON
                  THEN <<WallSegment(seg.room_id, seg.side, seg.x1, y_min,
                                     seg.x2, bottom_end, seg.height, seg.thickness)>>
                  ELSE <<>>
        top == IF y_max - top_start > EPSILON
               THEN <<WallSegment(seg.room_id, seg.side, seg.x1, top_start,
                                  seg.x2, y_max, seg.height, seg.thickness)>>
               ELSE <<>>
    IN  top \o bottom

_split_vertical(seg, cy, door_width) ==
    LET bottom_end == cy - door_width \div 2
        top_start == cy + door_width \div 2
        y_min == SortedMin(seg.y1, seg.y2)
        y_max == SortedMax(seg.y1, seg.y2)
        bottom == IF bottom_end - y_min > EPSILON
                  THEN <<WallSegment(seg.room_id, seg.side, seg.x1, y_min,
                                     seg.x2, bottom_end, seg.height, seg.thickness)>>
                  ELSE <<>>
        top == IF y_max - top_start > EPSILON
               THEN <<WallSegment(seg.room_id, seg.side, seg.x1, top_start,
                                  seg.x2, y_max, seg.height, seg.thickness)>>
               ELSE <<>>
    IN  bottom \o top

\* openings grouped by side alone, the room id left out of the key
openings_by_side_only(ops, room_id, side) ==
    SelectSeq(ops, LAMBDA d : d.side = side)

\* openings_by_room_side[(room_id, side)], in input order
openings_by_room_side(ops, room_id, side) ==
    SelectSeq(ops, LAMBDA d : d.room_id = room_id /\ d.side = side)

\* the `for p in current_pieces` loop for one piece
carve_piece(seg, p, opening) ==
    IF seg.side \in {"north", "south"}
    THEN LET p_min == SortedMin(p.x1, p.x2)
             p_max == SortedMax(p.x1, p.x2)
         IN  IF opening.center[1] > p_min + EPSILON /\ opening.center[1] < p_max - EPSILON
             THEN _split_horizontal(p, opening.center[1], opening.width)
             ELSE <<p>>
    ELSE LET p_min == SortedMin(p.y1, p.y2)
             p_max == SortedMax(p.y1, p.y2)
         IN  IF opening.center[2] > p_min + EPSILON /\ opening.center[2] < p_max - EPSILON
             THEN _split_vertical(p, opening.center[2], opening.width)
             ELSE <<p>>

RECURSIVE next_pieces(_, _, _)
next_pieces(seg, current_pieces, opening) ==
    IF current_pieces = <<>> THEN <<>>
    ELSE carve_piece(seg, Head(current_pieces), opening)
            \o next_pieces(seg, Tail(current_pieces), opening)

\* the `for opening in room_openings` loop
RECURSIVE apply_openings(_, _, _)
apply_openings(seg, current_pieces, room_openings) ==
    IF room_openings = <<>> THEN current_pieces
    ELSE apply_openings(seg, next_pieces(seg, current_pieces, Head(room_openings)),
                        Tail(room_openings))

carve_segment(room_id, seg, ops) ==
    LET room_openings == openings_by_room_side(ops, room_id, seg.side)
    IN  IF room_openings = <<>> THEN <<seg>>
        ELSE apply_openings(seg, <<seg>>, room_openings)

\* the `for seg in segments` loop building `out`
RECURSIVE carve_room(_, _, _)
carve_room(room_id, segments, ops) ==
    IF segments = <<>> THEN <<>>
    ELSE carve_segment(room_id, Head(segments), ops)
            \o carve_room(room_id, Tail(segments), ops)

carve_doors(ws, ops) ==
    [room_id \in DOMAIN ws |-> carve_room(room_id, ws[room_id], ops)]

\* side_center with the edges of north and south exchanged
side_center_edges_swapped(rect, side) ==
    LET min_x == rect[1]
        min_y == rect[2]
        max_x == rect[3]
        max_y == rect[4]
    IN  IF side \in {"north", "south"}
        THEN <<(min_x + max_x) \div 2, IF side = "north" THEN min_y ELSE max_y>>
        ELSE <<IF side = "east" THEN max_x ELSE min_x, (min_y + max_y) \div 2>>

\* the centre of one facing side of a room's rectangle
side_center(rect, side) ==
    LET min_x == rect[1]
        min_y == rect[2]
        max_x == rect[3]
        max_y == rect[4]
    IN  IF side \in {"north", "south"}
        THEN <<(min_x + max_x) \div 2, IF side = "north" THEN max_y ELSE min_y>>
        ELSE <<IF side = "east" THEN max_x ELSE min_x, (min_y + max_y) \div 2>>

\* the `for side in sides` loop of one room
RECURSIVE side_openings(_, _, _)
side_openings(room_id, sides, lookup) ==
    IF sides = <<>> THEN <<>>
    ELSE <<DoorOpening(room_id, Head(sides), side_center(lookup[room_id], Head(sides)),
                       DOOR_WIDTH, DOOR_HEIGHT)>>
            \o side_openings(room_id, Tail(sides), lookup)

\* the `for room_id, sides in corridor_facing.items()` loop over the rooms in key order
RECURSIVE room_openings_from(_, _, _)
room_openings_from(room_ids, facing, lookup) ==
    IF room_ids = <<>> THEN <<>>
    ELSE side_openings(Head(room_ids), facing[Head(room_ids)], lookup)
            \o room_openings_from(Tail(room_ids), facing, lookup)

\* the keys of a dict (here built in ascending order of room id), as a sequence
RECURSIVE KeyOrder(_)
KeyOrder(keys) ==
    IF keys = {} THEN <<>>
    ELSE LET k == CHOOSE x \in keys : \A y \in keys : x <= y
         IN  <<k>> \o KeyOrder(keys \ {k})

corridor_door_openings(facing, lookup) ==
    room_openings_from(KeyOrder(DOMAIN facing), facing, lookup)

-----------------------------------------------------------------------------
(* mf_v5/roof.py *)

RoofFace(vertices) == [vertices |-> vertices]

RoofGeometry(rt, faces) == [roof_type |-> rt, faces |-> faces]

hip_roof(min_x, min_y, max_x, max_y, bz, rt) ==
    LET cx == (min_x + max_x) \div 2
        cy == (min_y + max_y) \div 2
        apex == <<cx, cy, bz + ROOF_HEIGHT>>
        corners == << <<min_x, min_y, bz>>, <<max_x, min_y, bz>>,
                      <<max_x, max_y, bz>>, <<min_x, max_y, bz>> >>
        faces == << RoofFace(<<corners[1], corners[2], apex>>),
                    RoofFace(<<corners[2], corners[3], apex>>),
                    RoofFace(<<corners[3], corners[4], apex>>),
                    RoofFace(<<corners[4], corners[1], apex>>),
                    RoofFace(<<corners[4], corners[3], corners[2], corners[1]>>) >>
    IN  RoofGeometry(rt, faces)

flat_roof(min_x, min_y, max_x, max_y, bz, rt) ==
    LET faces == << RoofFace(<< <<min_x, min_y, bz>>, <<max_x, min_y, bz>>,
                                <<max_x, max_y, bz>>, <<min_x, max_y, bz>> >>),
                    RoofFace(<< <<min_x, max_y, bz>>, <<max_x, max_y, bz>>,
                                <<max_x, min_y, bz>>, <<min_x, min_y, bz>> >>) >>
    IN  RoofGeometry(rt, faces)

\* gabled_roof without its bottom face
gabled_roof_open(min_x, min_y, max_x, max_y, bz, rt) ==
    LET mid_x == (min_x + max_x) \div 2
        ridge_a == <<mid_x, min_y, bz + ROOF_HEIGHT>>
        ridge_b == <<mid_x, max_y, bz + ROOF_HEIGHT>>
        c0 == <<min_x, min_y, bz>>
        c1 == <<max_x, min_y, bz>>
        c2 == <<max_x, max_y, bz>>
        c3 == <<min_x, max_y, bz>>
        faces == << RoofFace(<<c0, ridge_a, ridge_b, c3>>),
                    RoofFace(<<c1, c2, ridge_b, ridge_a>>),
                    RoofFace(<<c0, c1, ridge_a>>),
                    RoofFace(<<c3, ridge_b, c2>>) >>
    IN  RoofGeometry(rt, faces)

\* gabled_roof whose ridge runs along x, at the middle of the y-extent
gabled_roof_ridge_along_x(min_x, min_y, max_x, max_y, bz, rt) ==
    LET mid_y == (min_y + max_y) \div 2
        ridge_a == <<min_x, mid_y, bz + ROOF_HEIGHT>>
        ridge_b == <<max_x, mid_y, bz + ROOF_HEIGHT>>
        c0 == <<min_x, min_y, bz>>
        c1 == <<max_x, min_y, bz>>
        c2 == <<max_x, max_y, bz>>
        c3 == <<min_x, max_y, bz>>
        faces == << RoofFace(<<c0, c1, ridge_b, ridge_a>>),
                    RoofFace(<<c2, c3, ridge_a, ridge_b>>),
                    RoofFace(<<c1, c2, ridge_b>>),
                    RoofFace(<<c3, c0, ridge_a>>),
                    RoofFace(<<c3, c2, c1, c0>>) >>
    IN  RoofGeometry(rt, faces)

gabled_roof(min_x, min_y, max_x, max_y, bz, rt) ==
    LET mid_x == (min_x + max_x) \div 2
        ridge_a == <<mid_x, min_y, bz + ROOF_HEIGHT>>
        ridge_b == <<mid_x, max_y, bz + ROOF_HEIGHT>>
        c0 == <<min_x, min_y, bz>>
        c1 == <<max_x, min_y, bz>>
        c2 == <<max_x, max_y, bz>>
        c3 == <<min_x, max_y, bz>>
        faces == << RoofFace(<<c0, ridge_a, ridge_b, c3>>),
                    RoofFace(<<c1, c2, ridge_b, ridge_a>>),
                    RoofFace(<<c0, c1, ridge_a>>),
                    RoofFace(<<c3, ridge_b, c2>>),
                    RoofFace(<<c3, c2, c1, c0>>) >>
    IN  RoofGeometry(rt, faces)

shed_roof(min_x, min_y, max_x, max_y, bz, rt) ==
    LET c0 == <<min_x, min_y, bz>>
        c1 == <<max_x, min_y, bz + ROOF_HEIGHT>>
        c2 == <<max_x, max_y, bz + ROOF_HEIGHT>>
        c3 == <<min_x, max_y, bz>>
        b0 == <<min_x, min_y, bz>>
        b1 == <<max_x, min_y, bz>>
        b2 == <<max_x, max_y, bz>>
        b3 == <<min_x, max_y, bz>>
        faces == << RoofFace(<<c0, c1, c2, c3>>),
                    RoofFace(<<b0, b1, c1, c0>>),
                    RoofFace(<<b1, b2, c2, c1>>),
                    RoofFace(<<b2, b3, c3, c2>>),
                    RoofFace(<<b3, b0, c0, c3>>),
                    RoofFace(<<b3, b2, b1, b0>>) >>
    IN  RoofGeometry(rt, faces)

\* build_roof whose fallback keeps the requested type on the flat geometry
build_roof_fallback_keeps_type(fp, bz, rt) ==
    IF rt = "HIP" THEN hip_roof(fp.min_x, fp.min_y, fp.max_x, fp.max_y, bz, rt)
    ELSE IF rt = "FLAT" THEN flat_roof(fp.min_x, fp.min_y, fp.max_x, fp.max_y, bz, rt)
    ELSE IF rt = "GABLED" THEN gabled_roof(fp.min_x, fp.min_y, fp.max_x, fp.max_y, bz, rt)
    ELSE IF rt = "SHED" THEN shed_roof(fp.min_x, fp.min_y, fp.max_x, fp.max_y, bz, rt)
    ELSE flat_roof(fp.min_x, fp.min_y, fp.max_x, fp.max_y, bz, rt)

RECURSIVE build_roof(_, _, _)
build_roof(fp, bz, rt) ==
    IF rt = "HIP" THEN hip_roof(fp.min_x, fp.min_y, fp.max_x, fp.max_y, bz, rt)
    ELSE IF rt = "FLAT" THEN flat_roof(fp.min_x, fp.min_y, fp.max_x, fp.max_y, bz, rt)
    ELSE IF rt = "GABLED" THEN gabled_roof(fp.min_x, fp.min_y, fp.max_x, fp.max_y, bz, rt)
    ELSE IF rt = "SHED" THEN shed_roof(fp.min_x, fp.min_y, fp.max_x, fp.max_y, bz, rt)
    ELSE build_roof(fp, bz, "FLAT")

-----------------------------------------------------------------------------
(* blenpc/run_command.py: the roof selection of the generate_building command *)

LowerLetters == <<"a", "b", "c", "d", "e", "f", "g", "h", "i", "j", "k", "l", "m",
                  "n", "o", "p", "q", "r", "s", "t", "u", "v", "w", "x", "y", "z">>
UpperLetters == <<"A", "B", "C", "D", "E", "F", "G", "H", "I", "J", "K", "L", "M",
                  "N", "O", "P", "Q", "R", "S", "T", "U", "V", "W", "X", "Y", "Z">>

\* str.upper() of one character
upper_char(c) ==
    IF \E i \in DOMAIN LowerLetters : LowerLetters[i] = c
    THEN UpperLetters[CHOOSE i \in DOMAIN LowerLetters : LowerLetters[i] = c]
    ELSE c

\* str.upper(); a string is the sequence of its characters
upper(str) == [i \in DOMAIN str |-> upper_char(str[i])]

\* dict.get(key, default)
dict_get(d, key, default) == IF key \in DOMAIN d THEN d[key] ELSE default

\* getattr(RoofType, name, default): the member of that name, else the default
RoofType_getattr(name, default) ==
    CASE name = <<"F", "L", "A", "T">> -> "FLAT"
      [] name = <<"H", "I", "P">> -> "HIP"
      [] name = <<"G", "A", "B", "L", "E", "D">> -> "GABLED"
      [] name = <<"S", "H", "E", "D">> -> "SHED"
      [] OTHER -> default

\* roof_str and roof_type of run()
command_roof_type(sd) ==
    LET roof_str == upper(dict_get(sd, "roof", <<"f", "l", "a", "t">>))
    IN  RoofType_getattr(roof_str, "FLAT")

-----------------------------------------------------------------------------
(* blenpc: metric lengths are exact integers in millimetres (0.05 m = 50)  *)

\* Python's round(n / d) for an integer ratio: to the nearest integer, a tie to the
\* even one
round_div(n, d) ==
    LET q == n \div d
        r == n % d
    IN  IF 2 * r < d THEN q
        ELSE IF 2 * r > d THEN q + 1
        ELSE IF q % 2 = 0 THEN q ELSE q + 1

-----------------------------------------------------------------------------
(* blenpc/config.py: the module's architectural, math and default constants *)
(* (lengths in millimetres, PHI and the variation as ratios, times in tenths *)
(* of a second); the module has no other attribute the modelled code reads  *)

config ==
    [GRID_UNIT |-> 250,
     STORY_HEIGHT |-> 3000,
     WALL_THICKNESS_BASE |-> 200,
     PHI |-> [num |-> 161803, den |-> 100000],
     GOLDEN_RATIO_VARIATION |-> [num |-> 4, den |-> 100],
     WINDOW_SILL_HEIGHT_DEFAULT |-> 1200,
     WINDOW_DEFAULT_WIDTH |-> 1000,
     WINDOW_DEFAULT_HEIGHT |-> 1200,
     LIBRARY_DIR |-> "_library",
     AUTO_BACKUP_REGISTRY |-> TRUE,
     INVENTORY_LOCK_TIMEOUT |-> 50,
     INVENTORY_LOCK_POLL_INTERVAL |-> 1,
     INVENTORY_LOCK_STALE_AGE |-> 600]

\* the exception of reading an attribute a module does not have
AttributeError(module, attribute) ==
    [exception |-> "AttributeError", module |-> module, attribute |-> attribute]

-----------------------------------------------------------------------------
(* blenpc/engine/grid_pos.py: the grid position type *)

MICRO_UNIT == 25

\* the grid units of each snap mode, in micro units
SnapUnits == [micro |-> 1, meso |-> 10]

meters_to_units(m) == round_div(m, MICRO_UNIT)

GridPos(x, y, z) == [x |-> x, y |-> y, z |-> z]

snap_units(m, snap) == round_div(meters_to_units(m), SnapUnits[snap]) * SnapUnits[snap]

GridPos_from_meters(x, y, z, snap) ==
    GridPos(snap_units(x, snap), snap_units(y, snap), snap_units(z, snap))

-----------------------------------------------------------------------------
(* blenpc/atoms/door.py *)

\* the letters of the swing tags a caller passes
Letters ==
    [inward_left   |-> <<"i", "n", "w", "a", "r", "d", "_", "l", "e", "f", "t">>,
     inward_right  |-> <<"i", "n", "w", "a", "r", "d", "_", "r", "i", "g", "h", "t">>,
     outward_left  |-> <<"o", "u", "t", "w", "a", "r", "d", "_", "l", "e", "f", "t">>,
     outward_right |-> <<"o", "u", "t", "w", "a", "r", "d", "_", "r", "i", "g", "h", "t">>,
     sliding       |-> <<"s", "l", "i", "d", "i", "n", "g">>,
     left          |-> <<"l", "e", "f", "t">>,
     outward       |-> <<"o", "u", "t", "w", "a", "r", "d">>]

\* Python's  sub in str  on strings as letter sequences
contains(str, sub) ==
    \E i \in 0 .. (Len(str) - Len(sub)) : SubSeq(str, i + 1, i + Len(sub)) = sub

left_in(swing) == contains(Letters[swing], <<"l", "e", "f", "t">>)

\* Python's  x in list
in_list(x, list) == \E i \in 1 .. Len(list) : list[i] = x

valid_materials == <<"wood", "glass", "metal", "composite">>
valid_swings == <<"inward_left", "inward_right", "outward_left", "outward_right", "sliding">>

FRAME_THICKNESS == 50
LEAF_THICKNESS == 50
FRAME_DEPTH == 150

ValueError(prefix, value, valid) ==
    [exception |-> "ValueError", prefix |-> prefix, value |-> value, valid |-> valid]

\* Python's list(d.keys()) for the registries the model draws
dict_keys(d) ==
    LET RECURSIVE List(_)
        List(K) == IF K = {} THEN <<>>
                   ELSE LET k == CHOOSE x \in K : TRUE IN <<k>> \o List(K \ {k})
    IN  List(DOMAIN d)

\* the validation at the head of build_door: the exception it raises, or <<>>
door_validation(style, material, swing) ==
    IF "DOOR_STANDARDS" \notin DOMAIN config
    THEN AttributeError("blenpc.config", "DOOR_STANDARDS")
    ELSE IF style \notin DOMAIN config.DOOR_STANDARDS
    THEN ValueError("Invalid door style: ", style, dict_keys(config.DOOR_STANDARDS))
    ELSE IF ~in_list(material, valid_materials)
    THEN ValueError("Invalid material: ", material, valid_materials)
    ELSE IF ~in_list(swing, valid_swings)
    THEN ValueError("Invalid swing: ", swing, valid_swings)
    ELSE <<>>

\* the parts dictionary of build_door
door_parts(width, height, material, swing) ==
    [frame_jamb_left |->
        [type |-> "frame_vertical", position |-> <<0, 0, 0>>,
         size |-> <<FRAME_THICKNESS, FRAME_DEPTH, height>>, material |-> "frame_wood"],
     frame_jamb_right |->
        [type |-> "frame_vertical", position |-> <<width - FRAME_THICKNESS, 0, 0>>,
         size |-> <<FRAME_THICKNESS, FRAME_DEPTH, height>>, material |-> "frame_wood"],
     frame_head |->
        [type |-> "frame_horizontal", position |-> <<0, 0, height - FRAME_THICKNESS>>,
         size |-> <<width, FRAME_DEPTH, FRAME_THICKNESS>>, material |-> "frame_wood"],
     door_leaf |->
        [type |-> "leaf",
         position |-> <<FRAME_THICKNESS, FRAME_DEPTH \div 2, FRAME_THICKNESS>>,
         size |-> <<width - 2 * FRAME_THICKNESS, LEAF_THICKNESS,
                    height - 2 * FRAME_THICKNESS>>,
         material |-> material, swing |-> swing]]

knob_x(width, swing) == IF left_in(swing) THEN width - 100 ELSE 100

hinge_x(width, swing) == IF left_in(swing) THEN 50 ELSE width - 50

hinge_top_z(height) == height - 200

\* the slots list of build_door
door_slots(width, height, swing) ==
    LET width_units == meters_to_units(width)
        height_units == meters_to_units(height)
        depth_units == meters_to_units(FRAME_DEPTH)
        knob_z == 950
        wall_interface_slot ==
            [id |-> "wall_interface", type |-> "door_opening",
             grid_pos |-> GridPos(width_units \div 2, depth_units \div 2, height_units \div 2),
             pos_meters |-> <<width \div 2, FRAME_DEPTH \div 2, height \div 2>>,
             size_meters |-> <<width, height>>,
             required |-> TRUE, occupied |-> FALSE]
        doorknob_slot ==
            [id |-> "doorknob", type |-> "door_hardware",
             grid_pos |-> GridPos_from_meters(knob_x(width, swing), FRAME_DEPTH \div 2,
                                              knob_z, "micro"),
             pos_meters |-> <<knob_x(width, swing), FRAME_DEPTH \div 2, knob_z>>,
             size_meters |-> <<60, 60>>,
             required |-> FALSE, occupied |-> FALSE]
        hinge_top_slot ==
            [id |-> "hinge_top", type |-> "door_hinge",
             grid_pos |-> GridPos_from_meters(hinge_x(width, swing), FRAME_DEPTH \div 2,
                                              hinge_top_z(height), "micro"),
             pos_meters |-> <<hinge_x(width, swing), FRAME_DEPTH \div 2, hinge_top_z(height)>>,
             size_meters |-> <<40, 100>>,
             required |-> TRUE, occupied |-> FALSE]
        hinge_bot_slot ==
            [id |-> "hinge_bot", type |-> "door_hinge",
             grid_pos |-> GridPos_from_meters(hinge_x(width, swing), FRAME_DEPTH \div 2,
                                              300, "micro"),
             pos_meters |-> <<hinge_x(width, swing), FRAME_DEPTH \div 2, 300>>,
             size_meters |-> <<40, 100>>,
             required |-> TRUE, occupied |-> FALSE]
    IN  <<wall_interface_slot, doorknob_slot, hinge_top_slot, hinge_bot_slot>>

\* build_door: the exception it raises (and then no door), or the DoorData it returns
build_door(style, material, swing, name, position) ==
    IF door_validation(style, material, swing) # <<>>
    THEN [raised |-> door_validation(style, material, swing), returned |-> <<>>]
    ELSE
    LET dims == config.DOOR_STANDARDS[style]
        width == dims.w
        height == dims.h
        pos == IF position = <<>> THEN <<0, 0, 0>> ELSE position
        grid_pos == GridPos_from_meters(pos[1], pos[2], pos[3], "meso")
        grid_size == <<meters_to_units(width), meters_to_units(FRAME_DEPTH),
                       meters_to_units(height)>>
        parts == door_parts(width, height, material, swing)
        slots == door_slots(width, height, swing)
        tags == << <<"arch_door">>, <<"door_", style>>, <<"mat_", material>>,
                   <<"swing_", swing>>, <<"size_", width, "m">>, <<"modular_v2">> >>
        meta == [width_m |-> width, height_m |-> height, style |-> style,
                 material |-> material, swing |-> swing,
                 frame_thickness |-> FRAME_THICKNESS, leaf_thickness |-> LEAF_THICKNESS,
                 part_count |-> Cardinality(DOMAIN parts), slot_count |-> Len(slots),
                 aabb |-> [min |-> <<0, 0, 0>>, max |-> <<width, FRAME_DEPTH, height>>]]
    IN  [raised |-> <<>>,
         returned |-> [name |-> name, grid_pos |-> grid_pos, grid_size |-> grid_size,
                       snap_mode |-> "meso", style |-> style, material |-> material,
                       swing |-> swing, parts |-> parts, slots |-> slots, tags |-> tags,
                       meta |-> meta]]

-----------------------------------------------------------------------------
(* blenpc/atoms/wall.py: arithmetic to the millimetre *)

\* golden_split whose variation is not centred on the golden point
golden_split_uncentred(length, rng) ==
    LET split_point == (length * config.PHI.den) \div config.PHI.num
        variation == (rng * config.GOLDEN_RATIO_VARIATION.num * length)
                        \div (RngSteps * config.GOLDEN_RATIO_VARIATION.den)
        final_split == split_point + variation
    IN  round_div(final_split, config.GRID_UNIT) * config.GRID_UNIT

\* golden_split that returns the split before it is snapped to the grid
golden_split_unsnapped(length, rng) ==
    LET split_point == (length * config.PHI.den) \div config.PHI.num
        variation == ((2 * rng - RngSteps) * config.GOLDEN_RATIO_VARIATION.num * length)
                        \div (2 * RngSteps * config.GOLDEN_RATIO_VARIATION.den)
    IN  split_point + variation

\* rng is the numerator of the value rng.random() returns, so that
\* rng.random() - 0.5 = (2 * rng - RngSteps) / (2 * RngSteps)
golden_split(length, rng) ==
    LET split_point == (length * config.PHI.den) \div config.PHI.num
        variation == ((2 * rng - RngSteps) * config.GOLDEN_RATIO_VARIATION.num * length)
                        \div (2 * RngSteps * config.GOLDEN_RATIO_VARIATION.den)
        final_split == split_point + variation
    IN  round_div(final_split, config.GRID_UNIT) * config.GRID_UNIT

\* Euler's formula on the vertex, edge and face counts of a mesh
check_manifold(v, e, f) == v - e + f = 2

\* validate_slot: the exception it raises, or <<>>
validate_slot(slot, registry) ==
    IF ~registry.exists THEN <<>>
    ELSE IF slot.type \notin registry.types
    THEN [exception |-> "ValueError", prefix |-> "Unknown slot type: ", value |-> slot.type]
    ELSE IF \E field \in {"id", "type", "pos", "size"} : field \notin DOMAIN slot
    THEN [exception |-> "ValueError", prefix |-> "Missing required field", value |-> slot.type]
    ELSE <<>>

\* create_engineered_wall: the exception it raises, or the slots it returns; rng is
\* the first value of make_rng(seed, "wall_slots"), bpy whether the module is there
create_engineered_wall(name, length, rng, bpy, registry) ==
    IF ~bpy
    THEN [raised |-> [exception |-> "ImportError"], returned |-> <<>>]
    ELSE IF ~check_manifold(8, 12, 6)
    THEN [raised |-> [exception |-> "Exception"], returned |-> <<>>]
    ELSE
    LET primary_slot_x == golden_split(length, rng)
        slots == << [id |-> "main_opening", type |-> "window_opening",
                     pos |-> <<primary_slot_x, 0, config.WINDOW_SILL_HEIGHT_DEFAULT>>,
                     size |-> <<config.WINDOW_DEFAULT_WIDTH,
                                config.WINDOW_DEFAULT_HEIGHT>>] >>
    IN  IF \E i \in 1 .. Len(slots) : validate_slot(slots[i], registry) # <<>>
        THEN [raised |-> validate_slot(slots[1], registry), returned |-> <<>>]
        ELSE [raised |-> <<>>, returned |-> slots]

-----------------------------------------------------------------------------
(* mf_v5/blender_mesh.py: final_merge_and_cleanup on a scene of objects.  A *)
(* scene is [objects, active]: objects maps the id of each object of the    *)
(* scene to its type, name and selection flag; active is the id of the      *)
(* active object, 0 when there is none.  Mesh data is not represented.      *)

\* bpy.ops.object.select_all(action='DESELECT')
select_all_deselect(sc) ==
    [sc EXCEPT !.objects = [o \in DOMAIN sc.objects |->
                               [sc.objects[o] EXCEPT !.selected = FALSE]]]

\* obj.select_set(True) for every obj of the list
select_set_all(sc, objs) ==
    [sc EXCEPT !.objects = [o \in DOMAIN sc.objects |->
                               IF \E i \in 1 .. Len(objs) : objs[i] = o
                               THEN [sc.objects[o] EXCEPT !.selected = TRUE]
                               ELSE sc.objects[o]]]

\* bpy.ops.object.join(): the selected objects become part of the active one
object_join(sc) ==
    [sc EXCEPT !.objects = [o \in {x \in DOMAIN sc.objects :
                                      x = sc.active \/ ~sc.objects[x].selected} |->
                               sc.objects[o]]]

\* final_merge_and_cleanup: what it returns and the scene it leaves
final_merge_and_cleanup(objects, sc) ==
    IF objects = <<>> THEN [returned |-> 0, scene |-> sc]
    ELSE
    LET deselected == select_all_deselect(sc)
        IsMesh(o) == sc.objects[o].type = "MESH"
        valid_objs == SelectSeq(objects, IsMesh)
    IN  IF valid_objs = <<>> THEN [returned |-> 0, scene |-> deselected]
        ELSE
        LET selected == select_set_all(deselected, valid_objs)
            activated == [selected EXCEPT !.active = valid_objs[1]]
            joined == object_join(activated)
            merged_obj == joined.active
            renamed == [joined EXCEPT !.objects[merged_obj].name = "Building_Final"]
        IN  [returned |-> merged_obj, scene |-> renamed]

-----------------------------------------------------------------------------
(* blenpc/engine/inventory_manager.py and slot_engine.py: the registry.  A file *)
(* is [exists, content]; the content of the inventory file is its JSON value,  *)
(* whose "assets" dictionary is the sequence of its values in insertion order, *)
(* each keyed by its "name".                                                   *)

NoFile == [exists |-> FALSE, content |-> <<>>]

File(content) == [exists |-> TRUE, content |-> content]

\* d[key] = value on a dictionary that always appends
dict_setitem_appends(d, key, value) == Append(d, value)

\* d[key] = value: the entry of the key is replaced where it is, a new key is appended
dict_setitem(d, key, value) ==
    IF \E i \in 1 .. Len(d) : d[i].name = key
    THEN [i \in 1 .. Len(d) |-> IF d[i].name = key THEN value ELSE d[i]]
    ELSE Append(d, value)

\* all(tag in asset_tags for tag in tags)
all_tags_in(tags, asset_tags) ==
    \A i \in 1 .. Len(tags) : \E j \in 1 .. Len(asset_tags) : asset_tags[j] = tags[i]

\* InventoryManager.find_asset and slot_engine.find_asset: the first asset that
\* carries all the tags, <<>> for None
find_asset(file, tags) ==
    IF ~file.exists THEN <<>>
    ELSE
    LET assets == file.content.assets
        hits == {i \in 1 .. Len(assets) :
                    all_tags_in(tags, dict_get(assets[i], "tags", <<>>))}
    IN  IF hits = {} THEN <<>>
        ELSE assets[CHOOSE i \in hits : \A j \in hits : i <= j]

place_on_slot(file, asset_tags) ==
    LET asset_data == find_asset(file, asset_tags)
    IN  IF asset_data = <<>>
        THEN [status |-> "error", message |-> <<"Asset not found for tags: ", asset_tags>>]
        ELSE [status |-> "success", asset |-> asset_data.name]

\* the inventory register_asset starts from: the file's, or a new one
load_inventory(file) ==
    IF file.exists THEN file.content ELSE [version |-> "1.1", assets |-> <<>>]

\* the inventory register_asset writes
updated_inventory(loaded, asset_data) ==
    [loaded EXCEPT !.assets = dict_setitem(loaded.assets, asset_data.name, asset_data)]

\* register_asset by a caller that finds no lock: the inventory file it leaves
register_asset(file, asset_data) ==
    File(updated_inventory(load_inventory(file), asset_data))

\* the lock file acquire_lock writes: its modification time and the pid in it
lock_file(mtime, pid) == File([mtime |-> mtime, pid |-> pid])

\* lock_age > config.INVENTORY_LOCK_STALE_AGE at time t
lock_is_stale(lk, t) == t - lk.content.mtime > config.INVENTORY_LOCK_STALE_AGE

\* time.time() - start_time > timeout at time t, with the default timeout
timed_out(start, t) == t - start > config.INVENTORY_LOCK_TIMEOUT

\* os.remove(LOCK_FILE) inside try / except: pass
os_remove(lk) == NoFile

-----------------------------------------------------------------------------
(* blenpc/run_command.py: the values of the create_wall branch of run() *)

\* os.path.join(config.LIBRARY_DIR, f"{name}.blend")
lib_path(name) == <<config.LIBRARY_DIR, name, ".blend">>

\* the asset_info dictionary of a wall
wall_asset_info(name, tags, length, slots, seed) ==
    [name |-> name,
     tags |-> tags,
     dimensions |-> [width |-> length, height |-> config.STORY_HEIGHT,
                     depth |-> config.WALL_THICKNESS_BASE],
     slots |-> slots,
     blend_file |-> lib_path(name),
     seed |-> seed]

error_result(message) == [status |-> "error", message |-> message]

create_wall_result(name) ==
    [status |-> "success", result |-> [asset_name |-> name, blend_file |-> lib_path(name)]]

\* sys.argv.index('--'): the first position of the separator, 0 when there is none
argv_index(args) ==
    IF \E i \in 1 .. Len(args) : args[i] = "--"
    THEN CHOOSE i \in 1 .. Len(args) : args[i] = "--" /\ \A j \in 1 .. (i - 1) : args[j] # "--"
    ELSE 0

\* the argument parsing of run(): the ValueError it ends with, or the two paths
parse_args(args) ==
    IF argv_index(args) = 0
    THEN [raised |-> "Missing -- separator", returned |-> <<>>]
    ELSE LET rest == SubSeq(args, argv_index(args) + 1, Len(args))
         IN  IF Len(rest) >= 2
             THEN [raised |-> "none", returned |-> [input_file |-> rest[1], output_file |-> rest[2]]]
             ELSE [raised |-> "Incorrect arguments", returned |-> <<>>]

\* the try block of run() on the content of the input file: json.load raises on a
\* file that is not JSON, .get on a value that is not an object; the command raises
\* or returns, which is all that is represented of its execution
execute_command(content, raises) ==
    IF ~content.json THEN [raised |-> "JSONDecodeError", returned |-> <<>>]
    ELSE IF content.kind # "dict" THEN [raised |-> "AttributeError", returned |-> <<>>]
    ELSE
    LET command_data == content.value
        cmd == dict_get(command_data, "command", "None")
    IN  IF cmd = "create_wall"
        THEN IF raises THEN [raised |-> "Exception", returned |-> <<>>]
             ELSE [raised |-> "none",
                   returned |-> create_wall_result(
                       dict_get(dict_get(command_data, "asset", <<>>), "name", "GenWall"))]
        ELSE IF cmd = "generate_building"
        THEN IF raises THEN [raised |-> "Exception", returned |-> <<>>]
             ELSE [raised |-> "none",
                   returned |-> [status |-> "success",
                                 result |-> [glb_path |-> "glb", manifest |-> "manifest"]]]
        ELSE [raised |-> "none", returned |-> error_result("Unknown command")]

\* run() that lets the exception of a command through: it ends without output file
run_without_handler(args, file, raises) ==
    IF parse_args(args).raised # "none"
    THEN [exit_code |-> 1, output |-> <<>>]
    ELSE IF ~file.exists
    THEN [exit_code |-> 0, output |-> error_result("Input file not found")]
    ELSE LET executed == execute_command(file.content, raises)
         IN  IF executed.raised # "none"
             THEN [exit_code |-> 1, output |-> <<>>]
             ELSE [exit_code |-> 0, output |-> executed.returned]

\* run(): the exit code of the process and the content of the output file, <<>>
\* when none is written
run(args, file, raises) ==
    IF parse_args(args).raised # "none"
    THEN [exit_code |-> 1, output |-> <<>>]
    ELSE IF ~file.exists
    THEN [exit_code |-> 0, output |-> error_result("Input file not found")]
    ELSE LET executed == execute_command(file.content, raises)
         IN  IF executed.raised # "none"
             THEN [exit_code |-> 0, output |-> error_result(executed.raised)]
             ELSE [exit_code |-> 0, output |-> executed.returned]

-----------------------------------------------------------------------------
(* Inputs of carve_doors *)

\* a wall run of room `room_id` lying along its side, from a to b on the side's axis
AlignedSegment(room_id, side, a, b) ==
    CASE side = "north" -> WallSegment(room_id, side, a, MaxCoord, b, MaxCoord, 3, 1)
      [] side = "south" -> WallSegment(room_id, side, a, 0, b, 0, 3, 1)
      [] side = "east"  -> WallSegment(room_id, side, MaxCoord, a, MaxCoord, b, 3, 1)
      [] side = "west"  -> WallSegment(room_id, side, 0, a, 0, b, 3, 1)

\* an opening of room `room_id` on `side` whose centre is at c on the side's axis
AlignedOpening(room_id, side, c, width) ==
    CASE side = "north" -> DoorOpening(room_id, side, <<c, MaxCoord>>, width, 2)
      [] side = "south" -> DoorOpening(room_id, side, <<c, 0>>, width, 2)
      [] side = "east"  -> DoorOpening(room_id, side, <<MaxCoord, c>>, width, 2)
      [] side = "west"  -> DoorOpening(room_id, side, <<0, c>>, width, 2)

\* sequences of at most two elements of S
UpToTwo(S) == {<<>>} \cup {<<a>> : a \in S} \cup {<<a, b>> : a \in S, b \in S}

RoomIds == {1, 2}

\* the openings of room 1 on one side
SideOpenings(side) == {AlignedOpening(1, side, c, w) : c \in Coords, w \in DoorWidths}

FullWall(room_id, side) == AlignedSegment(room_id, side, 0, MaxCoord)

\* one room with one segment of any extent and direction, and openings on its side
InitSegment ==
    \E side \in Sides, a \in Coords, b \in Coords :
        \E ops \in UpToTwo(SideOpenings(side)) :
            /\ wall_segments = [r \in {1} |-> <<AlignedSegment(1, side, a, b)>>]
            /\ openings = ops

RoomOpenings ==
    {AlignedOpening(r, s, MaxCoord \div 2, w) : r \in RoomIds, s \in Sides, w \in DoorWidths}

\* two rooms made of full walls, and openings near the middle of any wall
InitRooms ==
    \E l1 \in UpToTwo({FullWall(1, s) : s \in Sides}),
       l2 \in {<<>>} \cup {<<FullWall(2, s)>> : s \in Sides},
       ops \in UpToTwo(RoomOpenings) :
        /\ wall_segments = [r \in RoomIds |-> IF r = 1 THEN l1 ELSE l2]
        /\ openings = ops

\* no segments and no openings
InitEmpty ==
    /\ wall_segments = <<>>
    /\ openings = <<>>

-----------------------------------------------------------------------------
(* carve_doors as an operation *)

InitCarve ==
    /\ pc = "input"
    /\ carved = <<>>
    /\ IdleCorridor
    /\ IdleRoof
    /\ IdleDoor /\ IdleWall /\ IdleScene
    /\ IdleRegistry /\ IdleProcs /\ IdleRun
    /\ \/ InitSegment
       \/ InitRooms
       \/ InitEmpty

CallCarveDoors ==
    /\ pc = "input"
    /\ pc' = "carve_doors"
    /\ carved' = carve_doors(wall_segments, openings)
    /\ UNCHANGED <<wall_segments, openings, corridorVars, roofVars,
                   doorVars, wallVars, sceneVars,
                   registryVars, procVars, runVars>>

NextCarve == CallCarveDoors

SpecCarve == InitCarve /\ [][NextCarve]_vars

-----------------------------------------------------------------------------
(* Measures used by the properties of carve_doors *)

Horizontal(seg) == seg.side \in {"north", "south"}

\* the segment's 1D interval along the axis of its side
AxisLo(seg) == IF Horizontal(seg) THEN SortedMin(seg.x1, seg.x2) ELSE SortedMin(seg.y1, seg.y2)
AxisHi(seg) == IF Horizontal(seg) THEN SortedMax(seg.x1, seg.x2) ELSE SortedMax(seg.y1, seg.y2)
SegLength(seg) == AxisHi(seg) - AxisLo(seg)

\* the opening's centre along the axis of its side
AxisCentre(o) == IF o.side \in {"north", "south"} THEN o.center[1] ELSE o.center[2]

RECURSIVE SumLengths(_)
SumLengths(pieces) ==
    IF pieces = <<>> THEN 0 ELSE SegLength(Head(pieces)) + SumLengths(Tail(pieces))

Abs(n) == IF n < 0 THEN -n ELSE n

Carved == pc = "carve_doors"

\* the openings with the room id and side of a segment of room r, in input order
Matching(r, seg) ==
    LET idx == {i \in 1 .. Len(openings) :
                    openings[i].room_id = r /\ openings[i].side = seg.side}
        RECURSIVE Pick(_)
        Pick(i) == IF i > Len(openings) THEN <<>>
                   ELSE (IF i \in idx THEN <<openings[i]>> ELSE <<>>) \o Pick(i + 1)
    IN  Pick(1)

\* room r holds one segment, and one opening matches it, centred at its midpoint
SingleCentred(r) ==
    /\ Carved
    /\ Len(wall_segments[r]) = 1
    /\ Len(Matching(r, wall_segments[r][1])) = 1
    /\ 2 * AxisCentre(Matching(r, wall_segments[r][1])[1])
          = AxisLo(wall_segments[r][1]) + AxisHi(wall_segments[r][1])

SegL(r) == SegLength(wall_segments[r][1])
OpenW(r) == Matching(r, wall_segments[r][1])[1].width

TwoPiecesSummingTo(r) ==
    /\ Len(carved[r]) = 2
    /\ Abs(SumLengths(carved[r]) - (SegL(r) - OpenW(r))) <= EPSILON

\* C1 as stated: a centred opening of width W < L leaves exactly two pieces whose
\* lengths sum to L - W, within EPSILON
C1_TwoPiecesWheneverNarrower ==
    \A r \in DOMAIN wall_segments :
        SingleCentred(r) /\ OpenW(r) < SegL(r) => TwoPiecesSummingTo(r)

\* C1 amended: a centred opening leaves exactly two pieces whose lengths sum to
\* L - W (within EPSILON) when both remainders are longer than EPSILON, that is
\* when L - W > 2 * EPSILON
C1_TwoPiecesWhenRemaindersLong ==
    \A r \in DOMAIN wall_segments :
        SingleCentred(r) /\ SegL(r) - OpenW(r) > 2 * EPSILON => TwoPiecesSummingTo(r)

C1_Witness ==
    \E r \in DOMAIN wall_segments :
        /\ SingleCentred(r)
        /\ SegL(r) - OpenW(r) > 2 * EPSILON
        /\ Len(carved[r]) = 2
        /\ ~Horizontal(wall_segments[r][1])

\* C2 as stated, for well-formed segments (longer than EPSILON): a centred opening
\* of width W >= L leaves no piece of the segment
C2_NoPieceWhenAsWide ==
    \A r \in DOMAIN wall_segments :
        SingleCentred(r) /\ SegL(r) > EPSILON /\ OpenW(r) >= SegL(r) => Len(carved[r]) = 0

\* C3 as stated: no segment of the output has length <= EPSILON
C3_NoShortOutput ==
    Carved => \A r \in DOMAIN carved : \A i \in 1 .. Len(carved[r]) :
                  SegLength(carved[r][i]) > EPSILON

\* the unit cells [k, k+1] of the axis that an interval from lo to hi covers
Cells(lo, hi) == lo .. (hi - 1)

SegCells(r) == Cells(AxisLo(wall_segments[r][1]), AxisHi(wall_segments[r][1]))

PieceCells(r) ==
    UNION {Cells(AxisLo(carved[r][i]), AxisHi(carved[r][i])) : i \in 1 .. Len(carved[r])}

\* the union of the cutouts [center - width/2, center + width/2] of the matching openings
CutCells(r) ==
    LET m == Matching(r, wall_segments[r][1])
    IN  UNION {Cells(AxisCentre(m[i]) - m[i].width \div 2,
                     AxisCentre(m[i]) + m[i].width \div 2) : i \in 1 .. Len(m)}

\* wall that is neither cut out nor returned
LostCells(r) == (SegCells(r) \ CutCells(r)) \ PieceCells(r)

\* C4 as stated, for well-formed segments (longer than EPSILON): the pieces of a
\* segment cover the segment minus the cutouts of the matching openings and nothing
\* else, up to slivers of length <= EPSILON; no part of a cutout stays covered by wall
C4_PiecesAreSegmentMinusCutouts ==
    \A r \in DOMAIN wall_segments :
        Carved /\ Len(wall_segments[r]) = 1 /\ SegL(r) > EPSILON =>
            /\ PieceCells(r) \cap CutCells(r) = {}
            /\ PieceCells(r) \subseteq SegCells(r)
            /\ \A k \in LostCells(r) : \E j \in k .. (k + EPSILON) : j \notin LostCells(r)

Unmatched(r, seg) ==
    \A i \in 1 .. Len(openings) : ~(openings[i].room_id = r /\ openings[i].side = seg.side)

\* C5 as stated: a segment no opening matches is returned with the same coordinates
\* at the same position of its room's sequence
C5_UnmatchedKeepsPosition ==
    Carved => \A r \in DOMAIN wall_segments : \A i \in 1 .. Len(wall_segments[r]) :
                  Unmatched(r, wall_segments[r][i]) =>
                      /\ i <= Len(carved[r])
                      /\ carved[r][i] = wall_segments[r][i]

\* C5 amended: the segments no opening matches are returned with the same
\* coordinates and in the same order relative to each other; the pieces of the
\* room's other segments may shift their index
C5_UnmatchedKeepOrder ==
    Carved => \A r \in DOMAIN wall_segments :
                  SelectSeq(carved[r], LAMBDA p : Unmatched(r, p))
                    = SelectSeq(wall_segments[r], LAMBDA s : Unmatched(r, s))

C5_Witness ==
    /\ Carved
    /\ \E r \in DOMAIN wall_segments :
          /\ Len(wall_segments[r]) = 2
          /\ Unmatched(r, wall_segments[r][2])
          /\ Len(carved[r]) = 3
          /\ carved[r][3] = wall_segments[r][2]
          /\ \E i \in 1 .. Len(openings) : openings[i].room_id # r

-----------------------------------------------------------------------------
(* corridor_door_openings as an operation *)

\* rectangles (min_x, min_y, max_x, max_y) with a positive extent on both axes
Rects ==
    {<<x0, y0, x1, y1>> : x0 \in RectCoords, y0 \in RectCoords, x1 \in RectCoords, y1 \in RectCoords}

ProperRects == {rc \in Rects : rc[1] < rc[3] /\ rc[2] < rc[4]}

InitCorridor ==
    /\ pc = "input"
    /\ \E f1 \in UpToTwo(Sides), f2 \in {<<>>} \cup {<<sd>> : sd \in Sides} :
          corridor_facing = [r \in RoomIds |-> IF r = 1 THEN f1 ELSE f2]
    /\ room_rect_lookup \in [RoomIds -> ProperRects]
    /\ corridor_out = <<>>
    /\ IdleCarve
    /\ IdleRoof
    /\ IdleDoor /\ IdleWall /\ IdleScene
    /\ IdleRegistry /\ IdleProcs /\ IdleRun

CallCorridorDoorOpenings ==
    /\ pc = "input"
    /\ pc' = "corridor_door_openings"
    /\ corridor_out' = corridor_door_openings(corridor_facing, room_rect_lookup)
    /\ UNCHANGED <<corridor_facing, room_rect_lookup, carveVars, roofVars,
                   doorVars, wallVars, sceneVars,
                   registryVars, procVars, runVars>>

NextCorridor == CallCorridorDoorOpenings

SpecCorridor == InitCorridor /\ [][NextCorridor]_vars

\* the midpoint of a side of a rectangle, as the claim tables it
IsSideMidpoint(c, rc, side) ==
    CASE side = "north" -> 2 * c[1] = rc[1] + rc[3] /\ c[2] = rc[4]
      [] side = "south" -> 2 * c[1] = rc[1] + rc[3] /\ c[2] = rc[2]
      [] side = "east"  -> c[1] = rc[3] /\ 2 * c[2] = rc[2] + rc[4]
      [] side = "west"  -> c[1] = rc[1] /\ 2 * c[2] = rc[2] + rc[4]

\* C6: corridor_door_openings returns one opening for each listed (room, side), and
\* every opening is centred at the midpoint of that side of the room's rectangle
\* and has the configured door width and height
C6_OneOpeningPerFacingSide ==
    pc = "corridor_door_openings" =>
        /\ \A r \in RoomIds : \A sd \in Sides :
              Cardinality({k \in 1 .. Len(corridor_out) :
                              corridor_out[k].room_id = r /\ corridor_out[k].side = sd})
                = Cardinality({i \in 1 .. Len(corridor_facing[r]) : corridor_facing[r][i] = sd})
        /\ \A k \in 1 .. Len(corridor_out) :
              /\ corridor_out[k].room_id \in RoomIds
              /\ corridor_out[k].side \in Sides
              /\ IsSideMidpoint(corridor_out[k].center,
                                room_rect_lookup[corridor_out[k].room_id], corridor_out[k].side)
              /\ corridor_out[k].width = DOOR_WIDTH
              /\ corridor_out[k].height = DOOR_HEIGHT

C6_Witness ==
    /\ pc = "corridor_door_openings"
    /\ Len(corridor_out) = 3
    /\ corridor_facing[1] = <<"north", "east">>
    /\ corridor_out[1].center # corridor_out[2].center

-----------------------------------------------------------------------------
(* build_roof and the roof selection of run() as operations *)

\* roof types a caller can pass: the members and two values that are no member
RoofTypeValues == RoofTypes \cup {"MANSARD", "none"}

BaseElevations == {-2, 0, 3}

\* spellings of the four roof names in some letter case
KnownRoofStrings ==
    { <<"f", "l", "a", "t">>, <<"h", "i", "p">>, <<"g", "a", "b", "l", "e", "d">>,
      <<"s", "h", "e", "d">>, <<"H", "i", "p">>, <<"S", "H", "E", "D">> }

\* strings that spell no roof name
UnknownRoofStrings ==
    { <<"d", "o", "m", "e">>, <<>>, <<"h", "i", "p", " ">>, <<"f", "l", "a">>,
      <<"h", "i", "p", "s">>, <<"F", "L", "A", "T", "1">> }

\* a direct call of build_roof
InitRoofCall ==
    /\ pc = "input"
    /\ \E x0 \in RectCoords, y0 \in RectCoords, x1 \in RectCoords, y1 \in RectCoords :
          footprint = Rect(x0, y0, x1, y1)
    /\ base_z \in BaseElevations
    /\ roof_type \in RoofTypeValues
    /\ roof = <<>>
    /\ spec_data = <<>>
    /\ spec_roof_type = "none"

\* a generate_building command, with or without a "roof" entry in its spec
InitRoofCommand ==
    /\ pc = "command"
    /\ spec_data \in {<<>>} \cup {[roof |-> str] : str \in KnownRoofStrings \cup UnknownRoofStrings}
    /\ footprint = <<>> /\ base_z = 0 /\ roof_type = "none" /\ roof = <<>>
    /\ spec_roof_type = "none"

InitRoof ==
    /\ InitRoofCall \/ InitRoofCommand
    /\ IdleCarve
    /\ IdleCorridor
    /\ IdleDoor /\ IdleWall /\ IdleScene
    /\ IdleRegistry /\ IdleProcs /\ IdleRun

CallBuildRoof ==
    /\ pc = "input"
    /\ pc' = "build_roof"
    /\ roof' = build_roof(footprint, base_z, roof_type)
    /\ UNCHANGED <<footprint, base_z, roof_type, spec_data, spec_roof_type,
                   carveVars, corridorVars, doorVars, wallVars, sceneVars,
                   registryVars, procVars, runVars>>

RunGenerateBuilding ==
    /\ pc = "command"
    /\ pc' = "generate_building"
    /\ spec_roof_type' = command_roof_type(spec_data)
    /\ UNCHANGED <<footprint, base_z, roof_type, roof, spec_data, carveVars, corridorVars,
                   doorVars, wallVars, sceneVars,
                   registryVars, procVars, runVars>>

NextRoof == CallBuildRoof \/ RunGenerateBuilding

SpecRoof == InitRoof /\ [][NextRoof]_vars

Built == pc = "build_roof"

ProperFootprint == footprint.min_x < footprint.max_x /\ footprint.min_y < footprint.max_y

\* C7: build_roof returns the requested type, and the number of faces depends on
\* the type alone: FLAT 2, HIP 5, GABLED 5, SHED 6
C7_FaceCountByType ==
    Built /\ roof_type \in RoofTypes =>
        /\ roof.roof_type = roof_type
        /\ Len(roof.faces) = CASE roof_type = "FLAT" -> 2
                               [] roof_type = "HIP" -> 5
                               [] roof_type = "GABLED" -> 5
                               [] roof_type = "SHED" -> 6

C7_Witness ==
    /\ Built
    /\ roof_type = "GABLED"
    /\ Len(roof.faces) = 5
    /\ ~ProperFootprint

\* C8: a roof type that is no member makes build_roof return, without error, the
\* flat geometry of the footprint with roof_type FLAT; the generate_building
\* command maps a roof string that spells no member to FLAT
C8_UnknownTypeIsFlat ==
    /\ pc = "input" => ENABLED CallBuildRoof
    /\ Built /\ roof_type \notin RoofTypes =>
          LET p00 == <<footprint.min_x, footprint.min_y, base_z>>
              p10 == <<footprint.max_x, footprint.min_y, base_z>>
              p11 == <<footprint.max_x, footprint.max_y, base_z>>
              p01 == <<footprint.min_x, footprint.max_y, base_z>>
          IN  roof = [roof_type |-> "FLAT",
                      faces |-> << [vertices |-> <<p00, p10, p11, p01>>],
                                   [vertices |-> <<p01, p11, p10, p00>>] >>]
    /\ pc = "generate_building" =>
          /\ spec_roof_type \in RoofTypes
          /\ "roof" \in DOMAIN spec_data /\ spec_data.roof \in UnknownRoofStrings
                => spec_roof_type = "FLAT"

C8_Witness ==
    /\ Built
    /\ roof_type = "MANSARD"
    /\ roof.roof_type = "FLAT"
    /\ Len(roof.faces) = 2

\* the directed edges of a face, one per pair of consecutive vertices (cyclically)
FaceEdges(face) ==
    LET v == face.vertices
    IN  [i \in 1 .. Len(v) |-> <<v[i], v[(i % Len(v)) + 1]>>]

\* how many times the faces of the roof run along the directed edge e
EdgeUses(e) ==
    Cardinality({<<f, i>> \in (1 .. Len(roof.faces)) \X (1 .. 4) :
                    i <= Len(roof.faces[f].vertices) /\ FaceEdges(roof.faces[f])[i] = e})

\* C9 as stated: for a footprint of positive extent the faces of each roof type form
\* a closed, consistently wound surface: every edge of a face is used by exactly
\* two faces, once in each direction
C9_ClosedConsistentSurface ==
    Built /\ roof_type \in RoofTypes /\ ProperFootprint =>
        \A f \in 1 .. Len(roof.faces) : \A i \in 1 .. Len(roof.faces[f].vertices) :
            LET e == FaceEdges(roof.faces[f])[i]
            IN  EdgeUses(e) = 1 /\ EdgeUses(<<e[2], e[1]>>) = 1

\* C10 as stated: for a footprint of positive extent every face is a polygon of 3
\* or 4 pairwise distinct vertices
C10_FacesAreProperPolygons ==
    Built /\ roof_type \in RoofTypes /\ ProperFootprint =>
        \A f \in 1 .. Len(roof.faces) :
            LET v == roof.faces[f].vertices
            IN  /\ Len(v) \in {3, 4}
                /\ \A i \in 1 .. Len(v) : \A j \in 1 .. Len(v) : i # j => v[i] # v[j]

\* the vertices of the roof above the base elevation: the endpoints of the ridge
RidgePoints ==
    {roof.faces[f].vertices[i] :
        <<f, i>> \in {<<g, j>> \in (1 .. Len(roof.faces)) \X (1 .. 4) :
                        /\ j <= Len(roof.faces[g].vertices)
                        /\ roof.faces[g].vertices[j][3] # base_z}}

SpanX == footprint.max_x - footprint.min_x
SpanY == footprint.max_y - footprint.min_y

\* the ridge is a segment in the x direction / in the y direction
RidgeAlongX == \A p \in RidgePoints : \A q \in RidgePoints : p[2] = q[2]
RidgeAlongY == \A p \in RidgePoints : \A q \in RidgePoints : p[1] = q[1]

GabledBuilt == Built /\ roof_type = "GABLED" /\ ProperFootprint

\* C11 as stated: the ridge of a GABLED roof lies at base_elevation + ROOF_HEIGHT and
\* runs parallel to the shorter horizontal span of the rectangle
C11_RidgeAlongShorterSpan ==
    GabledBuilt =>
        /\ Cardinality(RidgePoints) = 2
        /\ \A p \in RidgePoints : p[3] = base_z + ROOF_HEIGHT
        /\ SpanY < SpanX => RidgeAlongY
        /\ SpanX < SpanY => RidgeAlongX

\* C11: the ridge of a GABLED roof lies at base_elevation + ROOF_HEIGHT and runs in
\* the y direction at the middle of the x-extent, from the min_y edge to the max_y
\* edge, whichever span is the shorter
C11_RidgeAlongY ==
    GabledBuilt =>
        RidgePoints =
            { <<(footprint.min_x + footprint.max_x) \div 2, footprint.min_y,
                base_z + ROOF_HEIGHT>>,
              <<(footprint.min_x + footprint.max_x) \div 2, footprint.max_y,
                base_z + ROOF_HEIGHT>> }

\* a gabled roof over a rectangle that is longer in y than in x
C11_Witness ==
    /\ GabledBuilt
    /\ SpanX < SpanY
    /\ RidgeAlongY
    /\ ~RidgeAlongX

-----------------------------------------------------------------------------
(* build_door as an operation *)

StyleValues == {"single", "double", "garage", "triple"}
MaterialValues == {"wood", "glass", "metal", "composite", "stone"}
SwingValues == {"inward_left", "inward_right", "outward_left", "outward_right", "sliding",
                "left", "outward"}
PositionValues == {<<>>, <<0, 0, 0>>, <<1000, 0, 0>>, <<130, 2370, 0>>}

InitDoor ==
    /\ pc = "input"
    /\ door_style \in StyleValues
    /\ door_material \in MaterialValues
    /\ door_swing \in SwingValues
    /\ door_position \in PositionValues
    /\ door = <<>>
    /\ door_raised = <<>>
    /\ IdleCarve /\ IdleCorridor /\ IdleRoof /\ IdleWall /\ IdleScene
    /\ IdleRegistry /\ IdleProcs /\ IdleRun

CallBuildDoor ==
    /\ pc = "input"
    /\ pc' = "build_door"
    /\ LET result == build_door(door_style, door_material, door_swing, "door", door_position)
       IN  door' = result.returned /\ door_raised' = result.raised
    /\ UNCHANGED <<door_style, door_material, door_swing, door_position,
                   carveVars, corridorVars, roofVars, wallVars, sceneVars,
                   registryVars, procVars, runVars>>

NextDoor == CallBuildDoor

SpecDoor == InitDoor /\ [][NextDoor]_vars

DoorCalled == pc = "build_door"

\* the enumerated sets of the three arguments
DoorStyles == {"single", "double", "garage"}
DoorMaterials == {"wood", "glass", "metal", "composite"}
DoorSwings == {"inward_left", "inward_right", "outward_left", "outward_right", "sliding"}

ValidDoorInput ==
    door_style \in DoorStyles /\ door_material \in DoorMaterials /\ door_swing \in DoorSwings

\* the elements of a sequence
Range(seq) == {seq[i] : i \in DOMAIN seq}

\* C12 as stated: build_door raises a ValueError that names the offending value and
\* the valid set, and produces no door, whenever style, material or swing is outside
\* its enumerated set; it returns a door for every valid combination
C12_ValueErrorOrDoor ==
    DoorCalled =>
        IF ValidDoorInput
        THEN door_raised = <<>> /\ door # <<>>
        ELSE /\ door = <<>>
             /\ door_raised # <<>>
             /\ door_raised.exception = "ValueError"
             /\ \/ door_style \notin DoorStyles /\ door_raised.value = door_style
                      /\ Range(door_raised.valid) = DoorStyles
                \/ door_material \notin DoorMaterials /\ door_raised.value = door_material
                      /\ Range(door_raised.valid) = DoorMaterials
                \/ door_swing \notin DoorSwings /\ door_raised.value = door_swing
                      /\ Range(door_raised.valid) = DoorSwings

\* C13 as stated: for every valid combination the door has exactly the four parts and
\* the four slots of the anatomy, each slot once, and its meta counts equal them
C13_FourPartsFourSlots ==
    DoorCalled /\ ValidDoorInput =>
        /\ door # <<>>
        /\ DOMAIN door.parts = {"frame_jamb_left", "frame_jamb_right", "frame_head", "door_leaf"}
        /\ Len(door.slots) = 4
        /\ {door.slots[i].id : i \in 1 .. 4} =
              {"wall_interface", "doorknob", "hinge_top", "hinge_bot"}
        /\ door.meta.part_count = 4
        /\ door.meta.slot_count = 4

\* the slot of the built door with the given id
SlotOf(id) == CHOOSE sl \in Range(door.slots) : sl.id = id

\* whether the letters l,e,f,t follow one another in the swing tag
HasLeft == door_swing \in {"inward_left", "outward_left"}

\* C14 as stated: for every valid combination the knob and the hinges are on opposite
\* halves of the door: a swing with "left" puts the hinges at x = 0.05 and the knob at
\* width - 0.1 > width/2; any other swing puts the hinges at width - 0.05 and the knob
\* at 0.1 < width/2
C14_KnobOppositeHinges ==
    DoorCalled /\ ValidDoorInput =>
        /\ door # <<>>
        /\ LET w == door.meta.width_m
               knob == SlotOf("doorknob").pos_meters[1]
               top == SlotOf("hinge_top").pos_meters[1]
               bot == SlotOf("hinge_bot").pos_meters[1]
           IN  IF HasLeft
               THEN top = 50 /\ bot = 50 /\ knob = w - 100 /\ 2 * knob > w
               ELSE top = w - 50 /\ bot = w - 50 /\ knob = 100 /\ 2 * knob < w

\* C15 as stated: for every valid combination every slot of the door lies inside the
\* door: 0 <= x <= width and 0 <= z <= height
C15_SlotsInsideDoor ==
    DoorCalled /\ ValidDoorInput =>
        /\ door # <<>>
        /\ \A i \in 1 .. Len(door.slots) :
              /\ 0 <= door.slots[i].pos_meters[1]
              /\ door.slots[i].pos_meters[1] <= door.meta.width_m
              /\ 0 <= door.slots[i].pos_meters[3]
              /\ door.slots[i].pos_meters[3] <= door.meta.height_m

-----------------------------------------------------------------------------
(* golden_split and create_engineered_wall as operations *)

\* wall lengths: the multiples of 0.125 m and some lengths off every grid
Lengths == {125 * i : i \in 0 .. MaxLenSteps} \cup {1, 333, 1999, 7001}

SlotRegistries ==
    { [exists |-> FALSE, types |-> {}],
      [exists |-> TRUE, types |-> {"window_opening", "door_opening"}],
      [exists |-> TRUE, types |-> {"door_opening"}] }

InitWall ==
    /\ pc = "input"
    /\ wall_length \in Lengths
    /\ rng_draw \in 0 .. (RngSteps - 1)
    /\ has_bpy \in BOOLEAN
    /\ slot_types \in SlotRegistries
    /\ split = 0
    /\ wall_slots = <<>>
    /\ wall_raised = <<>>
    /\ IdleCarve /\ IdleCorridor /\ IdleRoof /\ IdleDoor /\ IdleScene
    /\ IdleRegistry /\ IdleProcs /\ IdleRun

CallGoldenSplit ==
    /\ pc = "input"
    /\ pc' = "golden_split"
    /\ split' = golden_split(wall_length, rng_draw)
    /\ UNCHANGED <<wall_length, rng_draw, has_bpy, slot_types, wall_slots, wall_raised,
                   carveVars, corridorVars, roofVars, doorVars, sceneVars,
                   registryVars, procVars, runVars>>

CallCreateEngineeredWall ==
    /\ pc = "input"
    /\ pc' = "create_engineered_wall"
    /\ LET result == create_engineered_wall("wall", wall_length, rng_draw, has_bpy, slot_types)
       IN  wall_slots' = result.returned /\ wall_raised' = result.raised
    /\ UNCHANGED <<wall_length, rng_draw, has_bpy, slot_types, split,
                   carveVars, corridorVars, roofVars, doorVars, sceneVars,
                   registryVars, procVars, runVars>>

NextWall == CallGoldenSplit \/ CallCreateEngineeredWall

SpecWall == InitWall /\ [][NextWall]_vars

\* C18: for every length > 0 and every draw in [0, 1) the result of golden_split lies
\* within length/PHI -+ (variation * length / 2 + GRID_UNIT), with variation = 0.04
\* and GRID_UNIT = 0.25 m; 1/PHI lies between 0.6180 and 0.6181, so the interval
\* from 0.5981 * length - 250 to 0.6380 * length + 250 lies inside the claimed one
C18_SplitNearGoldenPoint ==
    pc = "golden_split" /\ wall_length > 0 =>
        /\ 10000 * split >= 5981 * wall_length - 250 * 10000
        /\ 10000 * split <= 6380 * wall_length + 250 * 10000

\* a long wall whose split lies on the far side of the golden point
C18_Witness ==
    /\ pc = "golden_split"
    /\ wall_length = 125 * MaxLenSteps
    /\ rng_draw = RngSteps - 1
    /\ 10000 * split > 6181 * wall_length

\* C19: the result of golden_split is an integer multiple of GRID_UNIT (0.25 m), and
\* so is the x position of every slot a created wall stores
C19_SplitOnGrid ==
    /\ pc = "golden_split" => split % 250 = 0
    /\ pc = "create_engineered_wall" =>
          \A i \in 1 .. Len(wall_slots) : wall_slots[i].pos[1] % 250 = 0

\* a created wall whose slot is at a positive multiple of the grid unit, for a length
\* that is no multiple of it
C19_Witness ==
    /\ pc = "create_engineered_wall"
    /\ wall_raised = <<>>
    /\ wall_length % 250 # 0
    /\ Len(wall_slots) = 1
    /\ wall_slots[1].pos[1] > 0
    /\ wall_slots[1].pos[1] % 250 = 0

-----------------------------------------------------------------------------
(* The calls with empty inputs, and final_merge_and_cleanup as an operation *)

MaxObjects == 3

ObjIds == 1 .. MaxObjects

\* the lists of distinct objects of the scene, of any length
ObjectLists ==
    UNION {{l \in [1 .. n -> ObjIds] : \A i \in 1 .. n : \A j \in 1 .. n : i # j => l[i] # l[j]} :
              n \in 0 .. MaxObjects}

\* a scene of MaxObjects objects and a list of some of them
InitMerge ==
    /\ merge_objects \in ObjectLists
    /\ \E types \in [ObjIds -> {"MESH", "EMPTY"}], sel \in [ObjIds -> BOOLEAN],
          act \in 0 .. MaxObjects :
          scene = [objects |-> [o \in ObjIds |->
                                   [type |-> types[o], name |-> "Object", selected |-> sel[o]]],
                   active |-> act]
    /\ scene_at_call = scene
    /\ merged = 0
    /\ IdleCarve
    /\ IdleCorridor

\* rooms with segments and no opening
InitNoOpenings ==
    /\ \E l1 \in UpToTwo({FullWall(1, s) : s \in Sides}),
          l2 \in {<<>>} \cup {<<FullWall(2, s)>> : s \in Sides} :
          wall_segments = [r \in RoomIds |-> IF r = 1 THEN l1 ELSE l2]
    /\ openings = <<>>
    /\ carved = <<>>
    /\ IdleCorridor
    /\ IdleScene

\* rooms none of which faces the corridor
InitNoFacing ==
    /\ corridor_facing \in {<<>>, [r \in RoomIds |-> <<>>]}
    /\ room_rect_lookup \in {<<>>} \cup [RoomIds -> ProperRects]
    /\ corridor_out = <<>>
    /\ IdleCarve
    /\ IdleScene

InitEmptyInputs ==
    /\ pc = "input"
    /\ InitMerge \/ InitNoOpenings \/ InitNoFacing
    /\ IdleRoof /\ IdleDoor /\ IdleWall
    /\ IdleRegistry /\ IdleProcs /\ IdleRun

CallFinalMergeAndCleanup ==
    /\ pc = "input"
    /\ pc' = "final_merge_and_cleanup"
    /\ LET result == final_merge_and_cleanup(merge_objects, scene)
       IN  merged' = result.returned /\ scene' = result.scene
    /\ UNCHANGED <<merge_objects, scene_at_call,
                   carveVars, corridorVars, roofVars, doorVars, wallVars,
                   registryVars, procVars, runVars>>

NextEmptyInputs == CallCarveDoors \/ CallCorridorDoorOpenings \/ CallFinalMergeAndCleanup

SpecEmptyInputs == InitEmptyInputs /\ [][NextEmptyInputs]_vars

\* the objects of the list that are meshes
MeshObjects == {o \in Range(merge_objects) : scene_at_call.objects[o].type = "MESH"}

\* C20 as stated: carve_doors without segments returns an empty mapping and without
\* openings returns every room's segments unchanged; corridor_door_openings without
\* facing sides returns an empty sequence; final_merge_and_cleanup without objects, or
\* without mesh objects, returns nothing and leaves the scene as it was
C20_EmptyInputsAreNoOps ==
    /\ pc = "carve_doors" /\ wall_segments = <<>> => carved = <<>>
    /\ pc = "carve_doors" /\ openings = <<>> => carved = wall_segments
    /\ pc = "corridor_door_openings"
          /\ (\A r \in DOMAIN corridor_facing : corridor_facing[r] = <<>>)
          => corridor_out = <<>>
    /\ pc = "final_merge_and_cleanup" /\ MeshObjects = {} =>
          merged = 0 /\ scene = scene_at_call

-----------------------------------------------------------------------------
(* The split inside the wall, and the order of the openings *)

\* C28 as stated: for every wall length > 0 and every seed the x position of the
\* main_opening slot of a created wall lies strictly inside the wall: 0 < x < length
C28_SlotInsideWall ==
    pc = "create_engineered_wall" /\ wall_raised = <<>> /\ wall_length > 0 =>
        \A i \in 1 .. Len(wall_slots) :
            wall_slots[i].id = "main_opening" =>
                0 < wall_slots[i].pos[1] /\ wall_slots[i].pos[1] < wall_length

\* the cutout interval of an opening along its side's axis
CutLo(o) == AxisCentre(o) - o.width \div 2
CutHi(o) == AxisCentre(o) + o.width \div 2

\* room r holds one segment and two openings, both matching it, whose cutouts lie
\* strictly inside the segment and more than EPSILON apart
TwoDisjointCutouts(r) ==
    /\ r \in DOMAIN wall_segments
    /\ Len(wall_segments[r]) = 1
    /\ Len(openings) = 2
    /\ \A i \in 1 .. 2 :
          /\ openings[i].room_id = r
          /\ openings[i].side = wall_segments[r][1].side
          /\ AxisLo(wall_segments[r][1]) < CutLo(openings[i])
          /\ CutHi(openings[i]) < AxisHi(wall_segments[r][1])
    /\ \/ CutHi(openings[1]) + EPSILON < CutLo(openings[2])
       \/ CutHi(openings[2]) + EPSILON < CutLo(openings[1])

\* C29: for a segment and two matching openings whose cutouts are disjoint (more than
\* EPSILON apart) and strictly inside the segment, carve_doors returns the same pieces
\* for both orders of the openings, and the pieces lie within the span of the segment,
\* are pairwise disjoint and are listed in ascending order along the axis
C29_OrderOfOpeningsIrrelevant ==
    \A r \in RoomIds :
        Carved /\ TwoDisjointCutouts(r) =>
            /\ carved[r] = carve_doors(wall_segments, <<openings[2], openings[1]>>)[r]
            /\ \A i \in 1 .. Len(carved[r]) :
                  /\ AxisLo(wall_segments[r][1]) <= AxisLo(carved[r][i])
                  /\ AxisLo(carved[r][i]) < AxisHi(carved[r][i])
                  /\ AxisHi(carved[r][i]) <= AxisHi(wall_segments[r][1])
                  /\ (carved[r][i].side \in {"north", "south"}
                         => carved[r][i].x1 < carved[r][i].x2)
                  /\ (carved[r][i].side \in {"east", "west"}
                         => carved[r][i].y1 < carved[r][i].y2)
            /\ \A i \in 1 .. Len(carved[r]) - 1 :
                  AxisHi(carved[r][i]) < AxisLo(carved[r][i + 1])

\* a vertical segment cut into three pieces by two openings given in descending order
C29_Witness ==
    /\ Carved
    /\ TwoDisjointCutouts(1)
    /\ wall_segments[1][1].side = "east"
    /\ AxisCentre(openings[1]) > AxisCentre(openings[2])
    /\ Len(carved[1]) = 3

-----------------------------------------------------------------------------
(* The registry used by one caller at a time *)

AssetNames == {"WallA", "WallB"}

TagLists == {<<>>, <<"arch_wall">>, <<"window">>, <<"arch_wall", "window">>}

\* asset dictionaries: a name, and tags or no "tags" entry
Assets ==
    {[name |-> n, tags |-> t] : n \in AssetNames, t \in TagLists}
        \cup {[name |-> n] : n \in AssetNames}

InitRegistry ==
    /\ pc = "input"
    /\ inventory = NoFile
    /\ lock = NoFile
    /\ reg_asset = <<>>
    /\ inventory_at_call = NoFile
    /\ find_tags = <<>>
    /\ found = <<>>
    /\ placed = <<>>
    /\ IdleCarve /\ IdleCorridor /\ IdleRoof /\ IdleDoor /\ IdleWall /\ IdleScene
    /\ IdleProcs /\ IdleRun

CallRegisterAsset ==
    \E a \in Assets :
        /\ ~lock.exists
        /\ pc' = "register_asset"
        /\ reg_asset' = a
        /\ inventory_at_call' = inventory
        /\ inventory' = register_asset(inventory, a)
        /\ UNCHANGED <<lock, find_tags, found, placed,
                       carveVars, corridorVars, roofVars, doorVars, wallVars, sceneVars,
                       procVars, runVars>>

CallFindAsset ==
    \E t \in TagLists :
        /\ pc' = "find_asset"
        /\ find_tags' = t
        /\ found' = find_asset(inventory, t)
        /\ UNCHANGED <<inventory, lock, reg_asset, inventory_at_call, placed,
                       carveVars, corridorVars, roofVars, doorVars, wallVars, sceneVars,
                       procVars, runVars>>

CallPlaceOnSlot ==
    \E t \in TagLists :
        /\ pc' = "place_on_slot"
        /\ find_tags' = t
        /\ placed' = place_on_slot(inventory, t)
        /\ UNCHANGED <<inventory, lock, reg_asset, inventory_at_call, found,
                       carveVars, corridorVars, roofVars, doorVars, wallVars, sceneVars,
                       procVars, runVars>>

NextRegistry == CallRegisterAsset \/ CallFindAsset \/ CallPlaceOnSlot

SpecRegistry == InitRegistry /\ [][NextRegistry]_vars

\* the entries of an inventory file, none without the file
Entries(file) == IF file.exists THEN Range(file.content.assets) ELSE {}

\* the tags of an asset as a set
TagsOf(a) == IF "tags" \in DOMAIN a THEN Range(a.tags) ELSE {}

\* C22: after register_asset(a) the inventory has exactly one entry under a's name
\* and it is a, the entries under other names are the ones it had before, and
\* find_asset(T) returns an asset of the inventory that carries every tag of T when
\* there is one (so for every T contained in the tags of a registered asset), and
\* None when there is none or no inventory file
C22_AddOrUpdateAndLookup ==
    /\ pc = "register_asset" =>
          /\ inventory.exists
          /\ Cardinality({i \in 1 .. Len(inventory.content.assets) :
                             inventory.content.assets[i].name = reg_asset.name}) = 1
          /\ reg_asset \in Entries(inventory)
          /\ {e \in Entries(inventory) : e.name # reg_asset.name}
                = {e \in Entries(inventory_at_call) : e.name # reg_asset.name}
    /\ \A a \in Entries(inventory) : \A b \in Entries(inventory) : a.name = b.name => a = b
    /\ pc = "find_asset" =>
          LET carrying == {e \in Entries(inventory) : Range(find_tags) \subseteq TagsOf(e)}
          IN  IF carrying = {} THEN found = <<>> ELSE found \in carrying

\* an asset registered again under its name with other tags, next to another asset
C22_Witness ==
    /\ pc = "register_asset"
    /\ Len(inventory.content.assets) = 2
    /\ \E e \in Entries(inventory_at_call) : e.name = reg_asset.name /\ e # reg_asset
    /\ inventory.content.assets[1] = reg_asset

-----------------------------------------------------------------------------
(* Concurrent create_wall runs: each process executes run() on its own input *)
(* and output file, all on one registry and one library, with the default   *)
(* wall and seed.  ppc is the statement a process executes next; time passes *)
(* in time.sleep and while the processes are held up.                        *)

Procs == {1, 2}

MaxPolls == 1

MaxTime == 700

\* the variables of the registry that concurrent runs do not use
lookupVars == <<reg_asset, inventory_at_call, find_tags, found, placed>>

\* the variables the steps of a run leave alone
restVars == <<carveVars, corridorVars, roofVars, doorVars, wallVars, sceneVars,
              lookupVars, runVars, asset_names>>

InitInventory ==
    /\ pc = "input"
    /\ inventory = NoFile
    /\ lock \in {NoFile, lock_file(0, 0)}
    /\ reg_asset = <<>> /\ inventory_at_call = <<>>
    /\ find_tags = <<>> /\ found = <<>> /\ placed = <<>>
    /\ now = 0
    /\ ppc = [p \in Procs |-> "create_wall"]
    /\ asset_names \in {f \in [Procs -> AssetNames] : f[1] = "WallA"}
    /\ start_time = [p \in Procs |-> 0]
    /\ polls = [p \in Procs |-> 0]
    /\ asset_info = [p \in Procs |-> <<>>]
    /\ removed = {}
    /\ local = [p \in Procs |-> <<>>]
    /\ proc_raised = [p \in Procs |-> "none"]
    /\ proc_result = [p \in Procs |-> <<>>]
    /\ output = [p \in Procs |-> <<>>]
    /\ blend_files = {}
    /\ backups = {}
    /\ wall_length = 4000
    /\ rng_draw = 0
    /\ has_bpy = TRUE
    /\ slot_types \in SlotRegistries
    /\ split = 0 /\ wall_slots = <<>> /\ wall_raised = <<>>
    /\ IdleCarve /\ IdleCorridor /\ IdleRoof /\ IdleDoor /\ IdleScene /\ IdleRun

Goto(p, statement) == ppc' = [ppc EXCEPT ![p] = statement]

\* an exception reaches the handler of run(): the result is the error
Except(p, exception) ==
    /\ proc_raised' = [proc_raised EXCEPT ![p] = exception]
    /\ proc_result' = [proc_result EXCEPT ![p] = error_result(exception)]
    /\ Goto(p, "write_output")

\* run(): create_engineered_wall and the asset_info of its slots
CreateWall(p) ==
    /\ ppc[p] = "create_wall"
    /\ LET wall == create_engineered_wall(asset_names[p], wall_length, rng_draw,
                                          has_bpy, slot_types)
       IN  IF wall.raised # <<>>
           THEN /\ Except(p, wall.raised.exception)
                /\ UNCHANGED asset_info
           ELSE /\ asset_info' = [asset_info EXCEPT ![p] =
                        wall_asset_info(asset_names[p], <<"arch_wall">>, wall_length,
                                        wall.returned, 0)]
                /\ Goto(p, "acquire_lock")
                /\ UNCHANGED <<proc_raised, proc_result>>
    /\ UNCHANGED <<inventory, lock, now, start_time, polls, removed, local, output,
                   blend_files, backups, pc, restVars>>

\* the statements of register_asset between acquire_lock and the end of release_lock
Holding == {"read_inventory", "write_inventory", "backup", "release_lock", "release_remove"}

\* acquire_lock: start_time = time.time()
AcquireLock(p) ==
    /\ ppc[p] = "acquire_lock"
    /\ start_time' = [start_time EXCEPT ![p] = now]
    /\ Goto(p, "while_exists")
    /\ UNCHANGED <<inventory, lock, now, polls, asset_info, removed, local, proc_raised,
                   proc_result, output, blend_files, backups, pc, restVars>>

\* acquire_lock: while os.path.exists(LOCK_FILE)
WhileExists(p) ==
    /\ ppc[p] = "while_exists"
    /\ Goto(p, IF lock.exists THEN "if_exists" ELSE "open_lock")
    /\ UNCHANGED <<inventory, lock, now, start_time, polls, asset_info, removed, local,
                   proc_raised, proc_result, output, blend_files, backups, pc, restVars>>

\* acquire_lock: if os.path.exists(LOCK_FILE)
IfExists(p) ==
    /\ ppc[p] = "if_exists"
    /\ Goto(p, IF lock.exists THEN "getmtime" ELSE "check_timeout")
    /\ UNCHANGED <<inventory, lock, now, start_time, polls, asset_info, removed, local,
                   proc_raised, proc_result, output, blend_files, backups, pc, restVars>>

\* acquire_lock: lock_age from os.path.getmtime, which raises FileNotFoundError
\* when the file is gone, and the test of the age
GetMtime(p) ==
    /\ ppc[p] = "getmtime"
    /\ IF ~lock.exists
       THEN Except(p, "FileNotFoundError")
       ELSE /\ Goto(p, IF lock_is_stale(lock, now) THEN "remove_stale" ELSE "check_timeout")
            /\ UNCHANGED <<proc_raised, proc_result>>
    /\ UNCHANGED <<inventory, lock, now, start_time, polls, asset_info, removed, local,
                   output, blend_files, backups, pc, restVars>>

\* acquire_lock: the removal of the stale lock
RemoveStale(p) ==
    /\ ppc[p] = "remove_stale"
    /\ lock' = os_remove(lock)
    /\ removed' = IF lock.exists
                  THEN removed \cup {[by |-> p, pid |-> lock.content.pid,
                                      held |-> \E q \in Procs : /\ q = lock.content.pid
                                                                /\ ppc[q] \in Holding]}
                  ELSE removed
    /\ Goto(p, "check_timeout")
    /\ UNCHANGED <<inventory, now, start_time, polls, asset_info, local, proc_raised,
                   proc_result, output, blend_files, backups, pc, restVars>>

\* acquire_lock: the test of the timeout
CheckTimeout(p) ==
    /\ ppc[p] = "check_timeout"
    /\ IF timed_out(start_time[p], now)
       THEN Except(p, "TimeoutError")
       ELSE /\ Goto(p, "sleep")
            /\ UNCHANGED <<proc_raised, proc_result>>
    /\ UNCHANGED <<inventory, lock, now, start_time, polls, asset_info, removed, local,
                   output, blend_files, backups, pc, restVars>>

\* acquire_lock: time.sleep(config.INVENTORY_LOCK_POLL_INTERVAL)
Sleep(p) ==
    /\ ppc[p] = "sleep"
    /\ polls[p] < MaxPolls
    /\ polls' = [polls EXCEPT ![p] = @ + 1]
    /\ now' = now + config.INVENTORY_LOCK_POLL_INTERVAL
    /\ Goto(p, "while_exists")
    /\ UNCHANGED <<inventory, lock, start_time, asset_info, removed, local, proc_raised,
                   proc_result, output, blend_files, backups, pc, restVars>>

\* acquire_lock: the lock file is opened for writing and the pid written
OpenLock(p) ==
    /\ ppc[p] = "open_lock"
    /\ lock' = lock_file(now, p)
    /\ Goto(p, "read_inventory")
    /\ UNCHANGED <<inventory, now, start_time, polls, asset_info, removed, local,
                   proc_raised, proc_result, output, blend_files, backups, pc, restVars>>

\* an exception inside the try of register_asset: the finally clause runs
Raise(p, exception) ==
    /\ proc_raised' = [proc_raised EXCEPT ![p] = exception]
    /\ Goto(p, "release_lock")

\* register_asset: the inventory is loaded and the asset put in, or reading raises
ReadInventory(p) ==
    /\ ppc[p] = "read_inventory"
    /\ \/ /\ local' = [local EXCEPT ![p] =
                          updated_inventory(load_inventory(inventory), asset_info[p])]
          /\ Goto(p, "write_inventory")
          /\ UNCHANGED proc_raised
       \/ /\ Raise(p, "OSError")
          /\ UNCHANGED local
    /\ UNCHANGED <<inventory, lock, now, start_time, polls, asset_info, removed,
                   proc_result, output, blend_files, backups, pc, restVars>>

\* register_asset: the inventory file is written, or writing raises
WriteInventory(p) ==
    /\ ppc[p] = "write_inventory"
    /\ \/ /\ inventory' = File(local[p])
          /\ Goto(p, "backup")
          /\ UNCHANGED proc_raised
       \/ /\ Raise(p, "OSError")
          /\ UNCHANGED inventory
    /\ UNCHANGED <<lock, now, start_time, polls, asset_info, removed, local,
                   proc_result, output, blend_files, backups, pc, restVars>>

\* register_asset: the backup is written when config.AUTO_BACKUP_REGISTRY, or raises
Backup(p) ==
    /\ ppc[p] = "backup"
    /\ \/ /\ backups' = IF config.AUTO_BACKUP_REGISTRY THEN backups \cup {p} ELSE backups
          /\ Goto(p, "release_lock")
          /\ UNCHANGED proc_raised
       \/ /\ config.AUTO_BACKUP_REGISTRY
          /\ Raise(p, "OSError")
          /\ UNCHANGED backups
    /\ UNCHANGED <<inventory, lock, now, start_time, polls, asset_info, removed, local,
                   proc_result, output, blend_files, pc, restVars>>

\* register_asset returns to run(), or the exception it lets through reaches the
\* handler of run()
Released(p) ==
    IF proc_raised[p] = "none"
    THEN Goto(p, "save_blend") /\ UNCHANGED <<proc_raised, proc_result>>
    ELSE Except(p, proc_raised[p])

\* release_lock: if os.path.exists(LOCK_FILE)
ReleaseLock(p) ==
    /\ ppc[p] = "release_lock"
    /\ IF lock.exists
       THEN Goto(p, "release_remove") /\ UNCHANGED <<proc_raised, proc_result>>
       ELSE Released(p)
    /\ UNCHANGED <<inventory, lock, now, start_time, polls, asset_info, removed, local,
                   output, blend_files, backups, pc, restVars>>

\* release_lock: the removal of the lock file
ReleaseRemove(p) ==
    /\ ppc[p] = "release_remove"
    /\ lock' = os_remove(lock)
    /\ Released(p)
    /\ UNCHANGED <<inventory, now, start_time, polls, asset_info, removed, local,
                   output, blend_files, backups, pc, restVars>>

\* run(): the library file is saved and the result is the success, or saving raises
SaveBlend(p) ==
    /\ ppc[p] = "save_blend"
    /\ \/ /\ blend_files' = blend_files \cup {lib_path(asset_names[p])}
          /\ proc_result' = [proc_result EXCEPT ![p] = create_wall_result(asset_names[p])]
          /\ Goto(p, "write_output")
          /\ UNCHANGED proc_raised
       \/ /\ Except(p, "RuntimeError")
          /\ UNCHANGED blend_files
    /\ UNCHANGED <<inventory, lock, now, start_time, polls, asset_info, removed, local,
                   output, backups, pc, restVars>>

\* run(): the result is written to the output file
WriteOutput(p) ==
    /\ ppc[p] = "write_output"
    /\ output' = [output EXCEPT ![p] = proc_result[p]]
    /\ Goto(p, "done")
    /\ UNCHANGED <<inventory, lock, now, start_time, polls, asset_info, removed, local,
                   proc_raised, proc_result, blend_files, backups, pc, restVars>>

\* the statements of the loop of acquire_lock
Waiting == {"while_exists", "if_exists", "getmtime", "remove_stale", "check_timeout", "sleep"}

\* the processes are held up for longer than a timeout, while one waits that has not
\* timed out, or for longer than a stale age, while there is a lock that is not stale
Delay ==
    /\ \/ /\ \E p \in Procs : ppc[p] \in Waiting /\ ~timed_out(start_time[p], now)
          /\ now' = now + config.INVENTORY_LOCK_TIMEOUT + config.INVENTORY_LOCK_POLL_INTERVAL
       \/ /\ lock.exists /\ ~lock_is_stale(lock, now)
          /\ now' = now + config.INVENTORY_LOCK_STALE_AGE + config.INVENTORY_LOCK_POLL_INTERVAL
    /\ now' <= MaxTime
    /\ UNCHANGED <<inventory, lock, ppc, start_time, polls, asset_info, removed, local,
                   proc_raised, proc_result, output, blend_files, backups, pc, restVars>>

NextInventory ==
    \/ \E p \in Procs :
          \/ CreateWall(p) \/ AcquireLock(p) \/ WhileExists(p) \/ IfExists(p)
          \/ GetMtime(p) \/ RemoveStale(p) \/ CheckTimeout(p) \/ Sleep(p) \/ OpenLock(p)
          \/ ReadInventory(p) \/ WriteInventory(p) \/ Backup(p)
          \/ ReleaseLock(p) \/ ReleaseRemove(p) \/ SaveBlend(p) \/ WriteOutput(p)
    \/ Delay

SpecInventory == InitInventory /\ [][NextInventory]_vars

\* the statements between a successful acquire_lock and release_lock
Critical == {"read_inventory", "write_inventory", "backup"}

\* C23: at most one process at a time is between a successful acquire_lock and its
\* release_lock
C23_MutualExclusion ==
    \A p \in Procs : \A q \in Procs :
        ppc[p] \in Critical /\ ppc[q] \in Critical => p = q

\* register_asset of the process has returned
Registered(p) ==
    /\ ppc[p] \in {"save_blend", "write_output", "done"}
    /\ proc_raised[p] \in {"none", "RuntimeError"}

AllDone == \A p \in Procs : ppc[p] = "done"

\* C24: when the processes have each completed register_asset for assets of distinct
\* names, the final inventory contains every one of the assets
C24_NoRegistrationLost ==
    (/\ AllDone
     /\ \A p \in Procs : Registered(p)
     /\ \A p \in Procs : \A q \in Procs : asset_names[p] = asset_names[q] => p = q)
        => \A p \in Procs : asset_info[p] \in Entries(inventory)

\* C25, first half: from the statements after acquire_lock a process goes on only to
\* such a statement or into release_lock, and no lock file exists when its
\* release_lock ends
C25_ReleasesOnEveryPath ==
    [][\A p \in Procs :
          /\ ppc[p] \in Critical /\ ppc'[p] # ppc[p]
                => ppc'[p] \in Critical \cup {"release_lock"}
          /\ ppc[p] \in {"release_lock", "release_remove"}
                /\ ppc'[p] \notin {"release_lock", "release_remove"}
                => ~lock'.exists]_vars

\* C25: register_asset releases the lock on every path after acquiring it, and a
\* register_asset whose acquire_lock failed with TimeoutError has neither modified the
\* inventory nor removed the lock held by another process
C25_ReleasesLockAndTimeoutIsHarmless ==
    /\ C25_ReleasesOnEveryPath
    /\ [](\A p \in Procs :
             proc_raised[p] = "TimeoutError"
                => /\ local[p] = <<>>
                   /\ p \notin backups
                   /\ ~(\E r \in removed : r.by = p /\ r.held))

\* C26: acquire_lock ends by creating the lock file and returning, or by raising
\* TimeoutError when more than the timeout has passed since it started
C26_AcquiresOrTimesOut ==
    \A p \in Procs :
        /\ proc_raised[p] # "FileNotFoundError"
        /\ proc_raised[p] = "TimeoutError" => timed_out(start_time[p], now)

\* C21: whenever the output file of a create_wall run reports success, the asset is
\* in the inventory under its name with at least one slot and its .blend file is in
\* the library
C21_SuccessMeansRegisteredAndSaved ==
    \A p \in Procs :
        (output[p] # <<>> /\ output[p].status = "success")
            => /\ \E e \in Entries(inventory) : e.name = asset_names[p] /\ Len(e.slots) >= 1
               /\ <<config.LIBRARY_DIR, asset_names[p], ".blend">> \in blend_files

\* C30: when the runs have ended, with success or with error, every asset of the
\* inventory has its .blend file at the recorded path
C30_RegisteredAssetsHaveBlendFile ==
    AllDone => \A e \in Entries(inventory) : e.blend_file \in blend_files

-----------------------------------------------------------------------------
(* One run() of run_command.py *)

\* sys.argv: the arguments of the host application, then those of the script
ArgvValues ==
    { <<"blender">>,
      <<"blender", "in.json", "out.json">>,
      <<"blender", "--">>,
      <<"blender", "--", "in.json">>,
      <<"blender", "--", "in.json", "out.json">>,
      <<"blender", "--", "in.json", "out.json", "extra">>,
      <<"blender", "--", "--", "out.json">> }

JsonObject(value) == [json |-> TRUE, kind |-> "dict", value |-> value]

\* the input file: absent, not JSON, a JSON list, or a JSON object
InputFiles ==
    { NoFile,
      File([json |-> FALSE, kind |-> "none", value |-> <<>>]),
      File([json |-> TRUE, kind |-> "list", value |-> <<>>]),
      File(JsonObject([seed |-> 1])),
      File(JsonObject([command |-> "create_wall"])),
      File(JsonObject([command |-> "create_wall", asset |-> [name |-> "WallA"]])),
      File(JsonObject([command |-> "generate_building"])),
      File(JsonObject([command |-> "create_door"])) }

InitRun ==
    /\ pc = "input"
    /\ argv \in ArgvValues
    /\ input_file \in InputFiles
    /\ command_raises \in BOOLEAN
    /\ exit_code = -1
    /\ run_output = <<>>
    /\ IdleCarve /\ IdleCorridor /\ IdleRoof /\ IdleDoor /\ IdleWall /\ IdleScene
    /\ IdleRegistry /\ IdleProcs

CallRun ==
    /\ pc = "input"
    /\ pc' = "run"
    /\ LET ended == run(argv, input_file, command_raises)
       IN  exit_code' = ended.exit_code /\ run_output' = ended.output
    /\ UNCHANGED <<argv, input_file, command_raises,
                   carveVars, corridorVars, roofVars, doorVars, wallVars, sceneVars,
                   registryVars, procVars>>

NextRun == CallRun

SpecRun == InitRun /\ [][NextRun]_vars

\* the separator is among the arguments and at least two arguments follow the first
Parsed(args) ==
    \E i \in 1 .. Len(args) :
        /\ args[i] = "--"
        /\ \A j \in 1 .. (i - 1) : args[j] # "--"
        /\ Len(args) - i >= 2

\* the command of the input file, "" when the file is no JSON object with a command
CommandOf(file) ==
    IF file.exists /\ file.content.kind = "dict" /\ "command" \in DOMAIN file.content.value
    THEN file.content.value.command
    ELSE ""

\* C27: with an input and an output path after the separator run() ends by writing
\* the output file with status success or error, and with status error and a message
\* when the input file is missing, the command unknown or an exception raised; without
\* the separator or with fewer than two arguments it exits with code 1 and writes no
\* output file
C27_RunAlwaysReports ==
    pc = "run" =>
        IF Parsed(argv)
        THEN /\ exit_code = 0
             /\ run_output # <<>>
             /\ run_output.status \in {"success", "error"}
             /\ (\/ ~input_file.exists
                 \/ CommandOf(input_file) \notin {"create_wall", "generate_building"}
                 \/ command_raises)
                    => run_output.status = "error" /\ "message" \in DOMAIN run_output
        ELSE exit_code = 1 /\ run_output = <<>>

\* a create_wall command that raised an exception, reported in the output file
C27_Witness ==
    /\ pc = "run"
    /\ Parsed(argv)
    /\ CommandOf(input_file) = "create_wall"
    /\ command_raises
    /\ run_output # <<>>
    /\ run_output.status = "error"

====
